---- MODULE Spec2Model ----
(***************************************************************************)
(* Model of the self-correcting LaTeX compilation pipeline of              *)
(* "Latex Compiler/compiler.py": LatexAutoFixer (text repairs),            *)
(* CompilationWorker (retry loop, toolchain invocation, cache directory)   *)
(* and LatexCompiler (facade).                                             *)
(*                                                                         *)
(* Text is a sequence of atoms.  An atom is a piece of text that no        *)
(* pattern of the program looks inside: a control word ("\\begin"), one    *)
(* brace, a word (an environment or package name), a line break, an        *)
(* option block, a run of other characters.  Every search, count, split    *)
(* and replacement of the program is computed on these sequences.          *)
(***************************************************************************)
EXTENDS Integers, Sequences, FiniteSets, TLC

(***************************************************************************)
(* Python str / re primitives on atom sequences                            *)
(***************************************************************************)

NL == "\n"

\* s[i:] starts with p   (i is 1-based)
StartsWithAt(s, p, i) ==
  /\ i >= 1
  /\ i + Len(p) - 1 <= Len(s)
  /\ \A k \in 1..Len(p) : s[i + k - 1] = p[k]

\* `p in s`
Contains(s, p) == \E i \in 1..(Len(s) + 1) : StartsWithAt(s, p, i)

\* s.find(p, i): least position >= i where p occurs, 0 when there is none
RECURSIVE FindFrom(_, _, _)
FindFrom(s, p, i) ==
  IF i + Len(p) - 1 > Len(s) THEN 0
  ELSE IF StartsWithAt(s, p, i) THEN i
  ELSE FindFrom(s, p, i + 1)

\* s.count(p): non-overlapping occurrences, scanning from the left (p non-empty)
RECURSIVE CountFrom(_, _, _)
CountFrom(s, p, i) ==
  LET j == FindFrom(s, p, i)
  IN IF j = 0 THEN 0 ELSE 1 + CountFrom(s, p, j + Len(p))

Count(s, p) == CountFrom(s, p, 1)

\* s.replace(p, r): every non-overlapping occurrence, scanning from the left
RECURSIVE ReplaceFrom(_, _, _, _)
ReplaceFrom(s, p, r, i) ==
  LET j == FindFrom(s, p, i)
  IN IF j = 0 THEN SubSeq(s, i, Len(s))
     ELSE SubSeq(s, i, j - 1) \o r \o ReplaceFrom(s, p, r, j + Len(p))

Replace(s, p, r) == ReplaceFrom(s, p, r, 1)

\* s.rfind(a) for a single atom a: greatest position of a, 0 when there is none
RFind(s, a) ==
  IF \E i \in 1..Len(s) : s[i] = a
  THEN CHOOSE i \in 1..Len(s) : s[i] = a /\ \A k \in (i + 1)..Len(s) : s[k] # a
  ELSE 0

\* p * n
RECURSIVE Repeat(_, _)
Repeat(p, n) == IF n <= 0 THEN <<>> ELSE p \o Repeat(p, n - 1)

\* s.split('\n'): the list of lines (always at least one)
RECURSIVE SplitLines(_)
SplitLines(s) ==
  LET j == FindFrom(s, <<NL>>, 1)
  IN IF j = 0 THEN <<s>>
     ELSE <<SubSeq(s, 1, j - 1)>> \o SplitLines(SubSeq(s, j + 1, Len(s)))

\* '\n'.join(lines)
RECURSIVE JoinLines(_)
JoinLines(lines) ==
  IF Len(lines) = 0 THEN <<>>
  ELSE IF Len(lines) = 1 THEN lines[1]
  ELSE lines[1] \o <<NL>> \o JoinLines(Tail(lines))

\* list.insert(idx, x) for 0 <= idx (Python clamps idx to len)
ListInsert(lines, idx, x) ==
  LET k == IF idx > Len(lines) THEN Len(lines) ELSE idx
  IN SubSeq(lines, 1, k) \o <<x>> \o SubSeq(lines, k + 1, Len(lines))

\* whitespace atoms removed by str.strip()
Whitespace == {" ", NL}

\* line.strip(), left side (the right side does not matter to startswith)
RECURSIVE LStrip(_)
LStrip(s) ==
  IF Len(s) > 0 /\ s[1] \in Whitespace THEN LStrip(Tail(s)) ELSE s

(***************************************************************************)
(* Atoms of LaTeX text                                                     *)
(***************************************************************************)

\* atoms made of \w characters only: what (\w+) can match
WordAtoms ==
  {"document", "lstlisting", "tabularx", "longtable", "description",
   "multicols", "verbatim", "article", "foo", "bar", "myenv"}

IsWord(a) == a \in WordAtoms

\* atoms of the form [ ... ] without a line break: what \[.*?\] can match alone
OptionAtoms == {"[12pt]", "[opt]"}

Env(name) == <<name>>

BeginMarker(env) == <<"\\begin", "{">> \o env \o <<"}">>
EndMarker(env) == <<"\\end", "{">> \o env \o <<"}">>

BEGIN_DOCUMENT == BeginMarker(Env("document"))
END_DOCUMENT == EndMarker(Env("document"))
DOCUMENTCLASS == <<"\\documentclass">>
DEFAULT_CLASS == <<"\\documentclass", "[12pt]", "{", "article", "}">>

\* a fix description; n and name are the values formatted into the message
Fix(msg, n, name) == [msg |-> msg, n |-> n, name |-> name]

Result(code, fixes) == [code |-> code, fixes |-> fixes, raised |-> FALSE]

(***************************************************************************)
(* LatexAutoFixer                                                          *)
(***************************************************************************)

Raised == [code |-> <<>>, fixes |-> <<>>, raised |-> TRUE]

\* first position at or after i that is not a word atom
RECURSIVE WordRunEnd(_, _)
WordRunEnd(s, i) ==
  IF i <= Len(s) /\ IsWord(s[i]) THEN WordRunEnd(s, i + 1) ELSE i

\* [m.group(1) for m in re.finditer(cmd + r'\{(\w+)\}', s)], from position i
RECURSIVE EnvMatchesFrom(_, _, _)
EnvMatchesFrom(s, cmd, i) ==
  IF i > Len(s) THEN <<>>
  ELSE IF s[i] = cmd /\ i + 1 <= Len(s) /\ s[i + 1] = "{"
    THEN LET e == WordRunEnd(s, i + 2)
         IN IF e > i + 2 /\ e <= Len(s) /\ s[e] = "}"
            THEN <<SubSeq(s, i + 2, e - 1)>> \o EnvMatchesFrom(s, cmd, e + 1)
            ELSE EnvMatchesFrom(s, cmd, i + 1)
    ELSE EnvMatchesFrom(s, cmd, i + 1)

\* the loop over end_pattern matches: pop when the end names the top of the stack
RECURSIVE PopMatching(_, _)
PopMatching(open_envs, ends) ==
  IF Len(ends) = 0 THEN open_envs
  ELSE PopMatching(
         IF Len(open_envs) > 0 /\ Head(ends) = open_envs[Len(open_envs)]
         THEN SubSeq(open_envs, 1, Len(open_envs) - 1)
         ELSE open_envs,
         Tail(ends))

\* for env in reversed(open_envs): code += '\n\\end{env}'; fixes.append(...)
RECURSIVE CloseReversed(_, _)
CloseReversed(res, open_envs) ==
  IF Len(open_envs) = 0 THEN res
  ELSE LET env == open_envs[Len(open_envs)]
       IN CloseReversed(
            Result(res.code \o <<NL>> \o EndMarker(env),
                   Append(res.fixes, Fix("Closed unclosed environment", 0, env))),
            SubSeq(open_envs, 1, Len(open_envs) - 1))

\* the truncation fix without its test for the terminal marker
fix_truncated_document_Always(code) ==
  Result(code \o <<NL>> \o END_DOCUMENT,
         <<Fix("Added missing \\end{document}", 0, <<>>)>>)

fix_truncated_document(code) ==
  IF ~Contains(code, END_DOCUMENT)
  THEN LET open_envs == PopMatching(EnvMatchesFrom(code, "\\begin", 1),
                                    EnvMatchesFrom(code, "\\end", 1))
           closed == CloseReversed(Result(code, <<>>), open_envs)
       IN Result(closed.code \o <<NL>> \o END_DOCUMENT,
                 Append(closed.fixes, Fix("Added missing \\end{document}", 0, <<>>)))
  ELSE Result(code, <<>>)

\* a count-based closing that appends one end-marker whatever the surplus
CloseByCount_Once(code, kind) ==
  LET begin_count == Count(code, BeginMarker(Env(kind)))
      end_count == Count(code, EndMarker(Env(kind)))
  IN IF begin_count > end_count
     THEN Result(code \o <<NL>> \o EndMarker(Env(kind)),
                 <<Fix("Closed n unclosed environment(s)", 1, Env(kind))>>)
     ELSE Result(code, <<>>)

\* the count-based closing shared by the lstlisting, tabularx, longtable,
\* description and multicols rules
CloseByCount(code, kind) ==
  LET begin_count == Count(code, BeginMarker(Env(kind)))
      end_count == Count(code, EndMarker(Env(kind)))
      diff == begin_count - end_count
  IN IF begin_count > end_count
     THEN Result(code \o Repeat(<<NL>> \o EndMarker(Env(kind)), diff),
                 <<Fix("Closed n unclosed environment(s)", diff, Env(kind))>>)
     ELSE Result(code, <<>>)

fix_lstlisting_issues(code) == CloseByCount(code, "lstlisting")

fix_tabularx_issues(code) ==
  LET a == CloseByCount(code, "tabularx")
      b == CloseByCount(a.code, "longtable")
  IN Result(b.code, a.fixes \o b.fixes)

fix_description_issues(code) == CloseByCount(code, "description")

fix_multicol_issues(code) == CloseByCount(code, "multicols")

\* the even-indexed parts of
\* re.split(r'(\\begin\{lstlisting\}.*?\\end\{lstlisting\})', s, flags=DOTALL),
\* concatenated: the text outside lstlisting regions, from position i
RECURSIVE OutsideLstlisting(_, _)
OutsideLstlisting(s, i) ==
  LET b == BeginMarker(Env("lstlisting"))
      e == EndMarker(Env("lstlisting"))
      j == FindFrom(s, b, i)
      k == IF j = 0 THEN 0 ELSE FindFrom(s, e, j + Len(b))
  IN IF k = 0 THEN SubSeq(s, i, Len(s))
     ELSE SubSeq(s, i, j - 1) \o OutsideLstlisting(s, k + Len(e))

\* for _ in range(diff): remove the last '}' of the text, if there is one
RECURSIVE RemoveLastBraces(_, _)
RemoveLastBraces(code, diff) ==
  IF diff <= 0 THEN code
  ELSE LET last_idx == RFind(code, "}")
       IN RemoveLastBraces(
            IF last_idx # 0
            THEN SubSeq(code, 1, last_idx - 1) \o SubSeq(code, last_idx + 1, Len(code))
            ELSE code,
            diff - 1)

fix_brace_imbalance(code) ==
  LET outside == OutsideLstlisting(code, 1)
      total_open == Count(outside, <<"{">>)
      total_close == Count(outside, <<"}">>)
  IN IF total_open > total_close
     THEN LET diff == total_open - total_close
          IN Result(
               IF Contains(code, END_DOCUMENT)
               THEN Replace(code, END_DOCUMENT,
                            Repeat(<<"}">>, diff) \o <<NL>> \o END_DOCUMENT)
               ELSE code \o Repeat(<<"}">>, diff),
               <<Fix("Added n missing closing brace(s)", diff, <<>>)>>)
     ELSE IF total_close > total_open
     THEN LET diff == total_close - total_open
          IN Result(RemoveLastBraces(code, diff),
                    <<Fix("Removed n extra closing brace(s)", diff, <<>>)>>)
     ELSE Result(code, <<>>)

\* the directives a preamble line may start with
PreambleDirectives ==
  {"\\documentclass", "\\usepackage", "\\title", "\\author", "\\date",
   "\\newcommand", "\\definecolor", "\\lstdefinestyle", "\\pagestyle",
   "\\fancyhf", "\\rhead", "\\lhead", "\\rfoot"}

IsPreambleLine(line) ==
  LET stripped == LStrip(line)
  IN Len(stripped) > 0 /\ stripped[1] \in PreambleDirectives

\* an insert_idx that stops at the first preamble line
InsertIdx_First(lines) ==
  LET hits == {i \in 1..Len(lines) : IsPreambleLine(lines[i])}
  IN IF hits = {} THEN 0
     ELSE CHOOSE i \in hits : \A k \in hits : i <= k

\* insert_idx after the loop over enumerate(lines): i + 1 of the last preamble line
InsertIdx(lines) ==
  LET hits == {i \in 1..Len(lines) : IsPreambleLine(lines[i])}
  IN IF hits = {} THEN 0
     ELSE CHOOSE i \in hits : \A k \in hits : k <= i

ensure_document_structure(code) ==
  LET a == IF ~Contains(code, DOCUMENTCLASS)
           THEN Result(DEFAULT_CLASS \o <<NL>> \o code,
                       <<Fix("Added missing \\documentclass", 0, <<>>)>>)
           ELSE Result(code, <<>>)
  IN IF ~Contains(a.code, BEGIN_DOCUMENT)
     THEN LET lines == SplitLines(a.code)
          IN Result(JoinLines(ListInsert(lines, InsertIdx(lines), BEGIN_DOCUMENT)),
                    Append(a.fixes, Fix("Added missing \\begin{document}", 0, <<>>)))
     ELSE a

\* re.compile raises re.error on a pattern with an unbalanced group
MetaAtoms == {"("}

PatternRaises(package_name) ==
  \E i \in 1..Len(package_name) : package_name[i] \in MetaAtoms

\* end of the match of (?:\[.*?\])? after the \usepackage at i, when the
\* pattern \\usepackage(?:\[.*?\])?\{name\} matches at i; 0 when it does not
PackageMatchEnd(s, package_name, i) ==
  LET braced == <<"{">> \o package_name \o <<"}">>
      OptEnds == {j \in (i + 1)..Len(s) :
                    /\ s[i + 1] \in OptionAtoms
                    /\ s[j] \in OptionAtoms
                    /\ \A k \in (i + 1)..j : s[k] # NL
                    /\ StartsWithAt(s, braced, j + 1)}
  IN IF s[i] # "\\usepackage" THEN 0
     ELSE IF OptEnds # {}
     THEN (CHOOSE j \in OptEnds : \A k \in OptEnds : j <= k) + Len(braced)
     ELSE IF StartsWithAt(s, braced, i + 1) THEN i + Len(braced)
     ELSE 0

\* re.sub(pattern, r'% \1  % Package not available', s), from position i
RECURSIVE SubPackage(_, _, _)
SubPackage(s, package_name, i) ==
  IF i > Len(s) THEN <<>>
  ELSE LET e == PackageMatchEnd(s, package_name, i)
       IN IF e = 0 THEN <<s[i]>> \o SubPackage(s, package_name, i + 1)
          ELSE <<"% ">> \o SubSeq(s, i, e) \o <<"  % Package not available">>
               \o SubPackage(s, package_name, e + 1)

fix_package_not_found(code, package_name) ==
  IF PatternRaises(package_name) THEN Raised
  ELSE IF \E i \in 1..Len(code) : PackageMatchEnd(code, package_name, i) # 0
  THEN Result(SubPackage(code, package_name, 1),
              <<Fix("Commented out unavailable package", 0, package_name)>>)
  ELSE Result(code, <<>>)

fix_undefined_environment(code, env_name) ==
  IF Contains(code, BeginMarker(env_name))
  THEN LET a == Replace(code, BeginMarker(env_name),
                        <<"% Undefined environment: ">> \o env_name \o <<NL>>
                        \o BeginMarker(Env("verbatim")))
           b == Replace(a, EndMarker(env_name),
                        EndMarker(Env("verbatim")) \o <<NL, "% End: ">> \o env_name)
       IN Result(b, <<Fix("Replaced undefined environment", 0, env_name)>>)
  ELSE Result(code, <<>>)

(***************************************************************************)
(* Diagnostic text.  A log, and the error text made from it, is a sequence *)
(* of lines; a line is a record of its kind and the name it carries:       *)
(*   "pkg"      ! LaTeX Error: File `<name>.sty' not found.                *)
(*   "env"      ! LaTeX Error: Environment <name> undefined.               *)
(*   "bang"     ! Undefined control sequence.                              *)
(*   "written"  Output written on <file>.pdf (1 page).                     *)
(*   "nopages"  No pages of output.                                        *)
(*   "text"     any other line of the log                                  *)
(* and the texts the worker itself produces: "notfound", "timeout",        *)
(* "exception", "unknown", and the "excerpt" separator.                    *)
(***************************************************************************)

Line(kind, name) == [kind |-> kind, name |-> name]

\* m.group(1) of re.search(pattern, error_log) for the line kind that the
\* pattern matches: the name of the first such line; <<>> when no match
FirstMatch(error_log, kind) ==
  LET hits == {i \in 1..Len(error_log) : error_log[i].kind = kind}
  IN IF hits = {} THEN <<>>
     ELSE error_log[CHOOSE i \in hits : \A k \in hits : i <= k].name

\* all_fixes.extend(fixes) after a rule returned r
Extend(acc, r) ==
  IF acc.raised \/ r.raised THEN Raised
  ELSE Result(r.code, acc.fixes \o r.fixes)

\* lines 237-263: rules 1 to 7, each on the text the previous one returned
Structural(code) ==
  LET S1(acc) == Extend(acc, ensure_document_structure(acc.code))
      S2(acc) == Extend(acc, fix_lstlisting_issues(acc.code))
      S3(acc) == Extend(acc, fix_tabularx_issues(acc.code))
      S4(acc) == Extend(acc, fix_description_issues(acc.code))
      S5(acc) == Extend(acc, fix_multicol_issues(acc.code))
      S6(acc) == Extend(acc, fix_brace_imbalance(acc.code))
      S7(acc) == Extend(acc, fix_truncated_document(acc.code))
  IN S7(S6(S5(S4(S3(S2(S1(Result(code, <<>>))))))))

\* lines 265-270
PackageStep(acc, error_log) ==
  LET pkg_name == FirstMatch(error_log, "pkg")
  IN IF pkg_name # <<>>
     THEN Extend(acc, fix_package_not_found(acc.code, pkg_name))
     ELSE acc

\* lines 272-277
EnvironmentStep(acc, error_log) ==
  LET env_name == FirstMatch(error_log, "env")
  IN IF ~acc.raised /\ env_name # <<>>
     THEN Extend(acc, fix_undefined_environment(acc.code, env_name))
     ELSE acc

comprehensive_fix(code, error_log) ==
  EnvironmentStep(PackageStep(Structural(code), error_log), error_log)

(***************************************************************************)
(* Bounds of the model and program constants                               *)
(***************************************************************************)

\* an input document is made of at most MaxPieces pieces
MaxPieces == 1
\* the output file grows at most MaxPdfSize times while the toolchain runs
MaxPdfSize == 1

\* CompilationWorker.MAX_FIX_ATTEMPTS
MAX_FIX_ATTEMPTS == 5
\* the cap on collected error lines in _extract_error
MAX_ERROR_LINES == 15

(***************************************************************************)
(* Inputs                                                                  *)
(***************************************************************************)

\* a class declaration and the opening of the body
HEAD ==
  <<"\\documentclass", "{", "article", "}", NL>> \o BEGIN_DOCUMENT \o <<NL>>

\* a complete, well-formed document
DOC == HEAD \o <<"$x$", NL>> \o END_DOCUMENT

Pieces ==
  { DOC,
    HEAD,
    <<"\\usepackage", "{", "foo", "}", NL>>,
    BeginMarker(Env("myenv")),
    <<"}">> }

RECURSIVE Flatten(_)
Flatten(ss) == IF Len(ss) = 0 THEN <<>> ELSE Head(ss) \o Flatten(Tail(ss))

SeqsUpTo(S, n) == UNION {[1..k -> S] : k \in 0..n}

InputDocs == {Flatten(ps) : ps \in SeqsUpTo(Pieces, MaxPieces)}

Names == {"output"}

\* the error lines a toolchain log may hold
ErrorLines ==
  { Line("pkg", <<"foo">>), Line("pkg", <<"foo", "(">>),
    Line("env", <<"myenv">>), Line("bang", <<>>) }

Summaries == { <<Line("written", <<>>)>>, <<Line("nopages", <<>>)>> }

\* what a log reports between its banner and its summary: nothing, or the
\* error that stopped the run
ErrorReports == {<<>>} \cup {<<e>> : e \in ErrorLines}

\* a log: the banner, the error report, the closing summary line
Logs ==
  { <<Line("text", <<>>)>> \o errs \o sum :
      errs \in ErrorReports, sum \in Summaries }

HasLine(log, kind) == \E i \in 1..Len(log) : log[i].kind = kind

\* what one run of the toolchain leaves behind: its log (<<>>: it died before
\* writing one) and whether it wrote the output file.  "Output written" is in
\* the log exactly when the file was written; with -draftmode no file is written.
OutcomesOf(draft) ==
  { [log |-> l, pdf |-> (~draft /\ HasLine(l, "written"))] : l \in Logs }
  \cup { [log |-> <<>>, pdf |-> FALSE] }

FullOutcomes == OutcomesOf(FALSE)
DraftOutcomes == OutcomesOf(TRUE)

ToolOutcomes(draft) == IF draft THEN DraftOutcomes ELSE FullOutcomes

(***************************************************************************)
(* State                                                                   *)
(***************************************************************************)

VARIABLES
  facade,     \* LatexCompiler: autofix, quick_mode, draft_mode, worker, last_pdf_path
  cache_dir,  \* CompilationWorker._cache_dir (0: None)
  fs,         \* the disk: existing directories, files, directories made so far
  workers,    \* the CompilationWorker objects, in creation order
  signals,    \* every signal emitted so far, in emission order
  lab         \* a direct call of a LatexAutoFixer method: its arguments and result

vars == <<facade, cache_dir, fs, workers, signals, lab>>

NoPath == <<>>
Path(dir, name, ext) == <<dir, name, ext>>

FileExists(files, p) == p \in DOMAIN files
WriteFile(files, p, content) ==
  [q \in DOMAIN files \cup {p} |-> IF q = p THEN content ELSE files[q]]

Ret(success, pdf_path, error) ==
  [success |-> success, pdf_path |-> pdf_path, error |-> error]

NoRet == Ret(FALSE, NoPath, <<>>)

\* a signal emission; w = 0 for the facade's own signals
Sig(w, sig, msg, n) ==
  [w |-> w, sig |-> sig, msg |-> msg, n |-> n,
   success |-> FALSE, pdf_path |-> NoPath, error |-> <<>>, fixes |-> <<>>]

Progress(w, msg, n) == Sig(w, "progress", msg, n)

PageReady(w, pdf_file) == [Sig(w, "page_ready", "", -1) EXCEPT !.pdf_path = pdf_file]

Finished(w, success, pdf_path, error, fixes) ==
  [Sig(w, "finished", "", 0) EXCEPT
     !.success = success, !.pdf_path = pdf_path, !.error = error, !.fixes = fixes]

\* a LatexAutoFixer call on text code with second argument arg, not yet made
NoCall(family, code, arg) ==
  [family |-> family, code |-> code, arg |-> arg, op |-> "none",
   result |-> Result(<<>>, <<>>)]

\* a facade just constructed, no cache directory yet
Idle ==
  /\ facade = [autofix |-> TRUE, quick_mode |-> FALSE, draft_mode |-> FALSE,
               worker |-> 0, last_pdf_path |-> NoPath]
  /\ cache_dir = 0
  /\ fs = [dirs |-> {}, files |-> <<>>, made |-> 0]
  /\ workers = <<>>
  /\ signals = <<>>

Init ==
  /\ Idle
  /\ lab = NoCall("none", <<>>, <<>>)

(***************************************************************************)
(* LatexCompiler (the facade)                                              *)
(***************************************************************************)

set_autofix(enabled) ==
  /\ facade' = [facade EXCEPT !.autofix = enabled]
  /\ UNCHANGED <<cache_dir, fs, workers, signals>>

set_quick_mode(enabled) ==
  /\ facade' = [facade EXCEPT !.quick_mode = enabled]
  /\ UNCHANGED <<cache_dir, fs, workers, signals>>

set_draft_mode(enabled) ==
  /\ facade' = [facade EXCEPT !.draft_mode = enabled]
  /\ UNCHANGED <<cache_dir, fs, workers, signals>>

\* CompilationWorker.__init__; compiled, errors and repairs record, for the
\* properties, the texts passed to _compile, the errors it returned and the
\* calls of comprehensive_fix made after a failure
NewWorker(latex_code, output_name, autofix, quick_mode, draft_mode) ==
  [latex_code |-> latex_code, output_name |-> output_name, autofix |-> autofix,
   quick_mode |-> quick_mode, draft_mode |-> draft_mode,
   temp_dir |-> 0, all_fixes |-> <<>>,
   pc |-> "start", current_code |-> <<>>, attempt |-> 0, ret |-> NoRet,
   process |-> "none", wrote |-> FALSE, last_size |-> 0,
   fix |-> Result(<<>>, <<>>),
   prepass |-> FALSE, compiled |-> <<>>, errors |-> <<>>, repairs |-> <<>>]

\* LatexCompiler.compile: the old worker's cleanup() does nothing
compile(latex_code, output_name) ==
  /\ workers' = Append(workers,
                  NewWorker(latex_code, output_name, facade.autofix,
                            facade.quick_mode, facade.draft_mode))
  /\ facade' = [facade EXCEPT !.worker = Len(workers) + 1]
  /\ signals' = Append(signals, Sig(0, "compilation_started", "", Len(workers) + 1))
  /\ UNCHANGED <<cache_dir, fs>>

(***************************************************************************)
(* CompilationWorker.run                                                   *)
(***************************************************************************)

\* lines 313-321: the pre-pass, only when autofix is enabled
\* the fix list overwritten instead of extended
ExtendFixes_Overwrite(all_fixes, fixes) == fixes

\* the pre-pass left out
PrePassResult_Skipped(latex_code) == Result(latex_code, <<>>)

\* lines 319 and 345: self.all_fixes.extend(fixes)
ExtendFixes(all_fixes, fixes) == all_fixes \o fixes

PrePassResult(latex_code) == comprehensive_fix(latex_code, <<>>)

PrePass(w) ==
  LET me == workers[w]
      r == PrePassResult(me.latex_code)
  IN /\ me.pc = "start"
     /\ IF me.autofix
        THEN /\ workers' = [workers EXCEPT ![w] =
                  [me EXCEPT !.pc = "loop", !.current_code = r.code,
                             !.all_fixes = ExtendFixes(me.all_fixes, r.fixes),
                             !.prepass = TRUE]]
             /\ signals' = signals \o <<Progress(w, "Pre-checking document structure...", 0)>>
                  \o (IF Len(r.fixes) > 0
                      THEN <<Progress(w, "Applied n pre-compilation fix(es)", Len(r.fixes))>>
                      ELSE <<>>)
        ELSE /\ workers' = [workers EXCEPT ![w] =
                  [me EXCEPT !.pc = "loop", !.current_code = me.latex_code]]
             /\ UNCHANGED signals
     /\ UNCHANGED <<facade, cache_dir, fs>>

\* get_cache_dir: the directory to use, and the class attribute and disk after it
CacheDirNeeded == cache_dir = 0 \/ cache_dir \notin fs.dirs

get_cache_dir == IF CacheDirNeeded THEN fs.made + 1 ELSE cache_dir

\* line 323: attempt in range(MAX_FIX_ATTEMPTS + 1)
InRange(attempt) == attempt < MAX_FIX_ATTEMPTS + 1

\* lines 323-325 and 350-352: the loop head and the entry of _compile
BeginAttempt(w) ==
  LET me == workers[w]
  IN /\ me.pc = "loop"
     /\ InRange(me.attempt)
     /\ signals' = Append(signals, Progress(w, "Compiling... (attempt n)", me.attempt + 1))
     /\ cache_dir' = get_cache_dir
     /\ fs' = IF CacheDirNeeded
              THEN [fs EXCEPT !.dirs = @ \cup {fs.made + 1}, !.made = @ + 1]
              ELSE fs
     /\ workers' = [workers EXCEPT ![w] =
          [me EXCEPT !.pc = "write", !.temp_dir = get_cache_dir,
                     !.compiled = Append(@, me.current_code)]]
     /\ UNCHANGED facade

\* _compile returns (success, pdf_path, error) to run
Return(w, ret) ==
  workers' = [workers EXCEPT ![w] =
    [@ EXCEPT !.pc = "judge", !.ret = ret, !.process = "none", !.wrote = FALSE,
              !.errors = IF ret.success THEN @ ELSE Append(@, ret.error)]]

\* the write waiting while another worker is between its own write and its
\* verdict on the same file (a lock the code does not take)
WriteTex_Locked(w) ==
  LET me == workers[w]
  IN /\ me.pc = "write"
     /\ me.temp_dir \in fs.dirs
     /\ \A v \in DOMAIN workers \ {w} :
          ~(/\ workers[v].pc \in {"which", "launch", "pass2", "check"}
            /\ workers[v].temp_dir = me.temp_dir
            /\ workers[v].output_name = me.output_name)
     /\ fs' = [fs EXCEPT !.files =
                 WriteFile(@, Path(me.temp_dir, me.output_name, "tex"), me.current_code)]
     /\ workers' = [workers EXCEPT ![w].pc = "which"]
     /\ UNCHANGED <<facade, cache_dir, signals>>

\* lines 355-356
WriteTex(w) ==
  LET me == workers[w]
  IN /\ me.pc = "write"
     /\ me.temp_dir \in fs.dirs
     /\ fs' = [fs EXCEPT !.files =
                 WriteFile(@, Path(me.temp_dir, me.output_name, "tex"), me.current_code)]
     /\ workers' = [workers EXCEPT ![w].pc = "which"]
     /\ UNCHANGED <<facade, cache_dir, signals>>

\* lines 355-356 raising OSError, caught at line 446
WriteTexFails(w) ==
  /\ workers[w].pc = "write"
  /\ Return(w, Ret(FALSE, NoPath, <<Line("exception", <<>>)>>))
  /\ UNCHANGED <<facade, cache_dir, fs, signals>>

\* lines 358-360: shutil.which finds the binary or not
WhichFound(w) ==
  /\ workers[w].pc = "which"
  /\ workers' = [workers EXCEPT ![w].pc = "launch"]
  /\ UNCHANGED <<facade, cache_dir, fs, signals>>

WhichMissing(w) ==
  /\ workers[w].pc = "which"
  /\ Return(w, Ret(FALSE, NoPath, <<Line("notfound", <<>>)>>))
  /\ UNCHANGED <<facade, cache_dir, fs, signals>>

(***************************************************************************)
(* The external toolchain (pdflatex)                                       *)
(***************************************************************************)

\* one complete run of pdflatex on <dir>/<name>.tex: it leaves its log and,
\* when it produced output, the output file made from the text it read
RunToolchain(files, dir, name, outcome, wrote) ==
  LET tex == Path(dir, name, "tex")
      src == IF FileExists(files, tex) THEN files[tex] ELSE <<>>
      logged == IF outcome.log # <<>>
                THEN WriteFile(files, Path(dir, name, "log"), outcome.log)
                ELSE files
  IN IF outcome.pdf /\ ~wrote
     THEN WriteFile(logged, Path(dir, name, "pdf"), [size |-> 1, src |-> src])
     ELSE logged

(***************************************************************************)
(* CompilationWorker._compile                                              *)
(***************************************************************************)

PdfFile(me) == Path(me.temp_dir, me.output_name, "pdf")
LogFile(me) == Path(me.temp_dir, me.output_name, "log")

\* Popen / subprocess.run raising OSError, caught at line 446
LaunchFails(w) ==
  LET me == workers[w]
  IN /\ me.pc = "launch"
     /\ signals' = Append(signals,
          IF me.quick_mode THEN Progress(w, "Streaming compile...", 0)
          ELSE Progress(w, "Running pdflatex (pass 1/2)...", 0))
     /\ Return(w, Ret(FALSE, NoPath, <<Line("exception", <<>>)>>))
     /\ UNCHANGED <<facade, cache_dir, fs>>

\* lines 374-387: quick mode starts the process and returns at once
Popen(w) ==
  LET me == workers[w]
  IN /\ me.pc = "launch"
     /\ me.quick_mode
     /\ signals' = Append(signals, Progress(w, "Streaming compile...", 0))
     /\ workers' = [workers EXCEPT ![w] =
          [me EXCEPT !.pc = "poll", !.process = "running", !.wrote = FALSE,
                     !.last_size = 0]]
     /\ UNCHANGED <<facade, cache_dir, fs>>

\* the running process writes (more of) its output file
ToolWritesPdf(w) ==
  LET me == workers[w]
      pdf == PdfFile(me)
      tex == Path(me.temp_dir, me.output_name, "tex")
      size == IF me.wrote THEN fs.files[pdf].size ELSE 0
  IN /\ me.process = "running"
     /\ ~me.draft_mode
     /\ size < MaxPdfSize
     /\ fs' = [fs EXCEPT !.files =
          WriteFile(@, pdf, [size |-> size + 1,
                             src |-> IF FileExists(fs.files, tex)
                                     THEN fs.files[tex] ELSE <<>>])]
     /\ workers' = [workers EXCEPT ![w].wrote = TRUE]
     /\ UNCHANGED <<facade, cache_dir, signals>>

\* the running process stops for good without exiting: its stdout pipe
\* (subprocess.PIPE, read only after the loop) is full, or TeX loops
ToolBlocks(w) ==
  /\ workers[w].process = "running"
  /\ workers' = [workers EXCEPT ![w].process = "blocked"]
  /\ UNCHANGED <<facade, cache_dir, fs, signals>>

\* the running process exits
ToolExits(w, outcome) ==
  LET me == workers[w]
  IN /\ me.process = "running"
     /\ outcome \in ToolOutcomes(me.draft_mode)
     /\ me.wrote => outcome.pdf
     /\ fs' = [fs EXCEPT !.files =
                 RunToolchain(@, me.temp_dir, me.output_name, outcome, me.wrote)]
     /\ workers' = [workers EXCEPT ![w].process = "exited"]
     /\ UNCHANGED <<facade, cache_dir, signals>>

\* lines 389-401: one round of the loop that found the output file grown
\* (a round that finds nothing new changes nothing)
Poll(w) ==
  LET me == workers[w]
      pdf_file == PdfFile(me)
  IN /\ me.pc = "poll"
     /\ me.process \in {"running", "blocked"}
     /\ FileExists(fs.files, pdf_file)
     /\ fs.files[pdf_file].size > me.last_size
     /\ workers' = [workers EXCEPT ![w].last_size = fs.files[pdf_file].size]
     /\ signals' = signals \o
          <<PageReady(w, pdf_file),
            Progress(w, "Compiling... (n KB)", fs.files[pdf_file].size)>>
     /\ UNCHANGED <<facade, cache_dir, fs>>

\* lines 389 and 403: poll() is not None, communicate returns
PollEnd(w) ==
  /\ workers[w].pc = "poll"
  /\ workers[w].process = "exited"
  /\ workers' = [workers EXCEPT ![w].pc = "check"]
  /\ UNCHANGED <<facade, cache_dir, fs, signals>>

\* the event after the first pass emitted whether or not the file exists
PassOne_AlwaysRefresh(w, outcome) ==
  LET me == workers[w]
      files == RunToolchain(fs.files, me.temp_dir, me.output_name, outcome, FALSE)
  IN /\ me.pc = "launch"
     /\ ~me.quick_mode
     /\ outcome \in ToolOutcomes(me.draft_mode)
     /\ fs' = [fs EXCEPT !.files = files]
     /\ signals' = signals \o <<Progress(w, "Running pdflatex (pass 1/2)...", 0),
                                PageReady(w, PdfFile(me))>>
     /\ workers' = [workers EXCEPT ![w].pc = "pass2"]
     /\ UNCHANGED <<facade, cache_dir>>

\* lines 407-416: full mode, first pass, run to completion
PassOne(w, outcome) ==
  LET me == workers[w]
      files == RunToolchain(fs.files, me.temp_dir, me.output_name, outcome, FALSE)
  IN /\ me.pc = "launch"
     /\ ~me.quick_mode
     /\ outcome \in ToolOutcomes(me.draft_mode)
     /\ fs' = [fs EXCEPT !.files = files]
     /\ signals' = signals \o <<Progress(w, "Running pdflatex (pass 1/2)...", 0)>>
          \o (IF FileExists(files, PdfFile(me)) THEN <<PageReady(w, PdfFile(me))>>
              ELSE <<>>)
     /\ workers' = [workers EXCEPT ![w].pc = "pass2"]
     /\ UNCHANGED <<facade, cache_dir>>

\* the timeout left uncaught: the thread ends
PassOneTimeout_Aborts(w) ==
  LET me == workers[w]
  IN /\ me.pc = "launch"
     /\ ~me.quick_mode
     /\ signals' = Append(signals, Progress(w, "Running pdflatex (pass 1/2)...", 0))
     /\ workers' = [workers EXCEPT ![w].pc = "crashed"]
     /\ UNCHANGED <<facade, cache_dir, fs>>

\* lines 408-412 raising TimeoutExpired, caught at line 444
PassOneTimeout(w) ==
  LET me == workers[w]
  IN /\ me.pc = "launch"
     /\ ~me.quick_mode
     /\ signals' = Append(signals, Progress(w, "Running pdflatex (pass 1/2)...", 0))
     /\ Return(w, Ret(FALSE, NoPath, <<Line("timeout", <<>>)>>))
     /\ UNCHANGED <<facade, cache_dir, fs>>

\* lines 418-423: full mode, second pass
PassTwo(w, outcome) ==
  LET me == workers[w]
  IN /\ me.pc = "pass2"
     /\ outcome \in ToolOutcomes(me.draft_mode)
     /\ fs' = [fs EXCEPT !.files =
                 RunToolchain(@, me.temp_dir, me.output_name, outcome, FALSE)]
     /\ signals' = Append(signals, Progress(w, "Running pdflatex (pass 2/2)...", 0))
     /\ workers' = [workers EXCEPT ![w].pc = "check"]
     /\ UNCHANGED <<facade, cache_dir>>

PassTwoTimeout(w) ==
  LET me == workers[w]
  IN /\ me.pc = "pass2"
     /\ signals' = Append(signals, Progress(w, "Running pdflatex (pass 2/2)...", 0))
     /\ Return(w, Ret(FALSE, NoPath, <<Line("timeout", <<>>)>>))
     /\ UNCHANGED <<facade, cache_dir, fs>>

\* line.startswith('!') or 'Error' in line or 'error' in line.lower()
IsErrorLine(line) == line.kind \in {"pkg", "env", "bang"}

\* '!' in line
HasBang(line) == line.kind \in {"pkg", "env", "bang"}

\* lines 449-467; the logs of the model are shorter than the 3000 characters
\* of the excerpt, which is therefore the whole log
extract_error(files, log_file) ==
  LET full_log == IF FileExists(files, log_file) THEN files[log_file] ELSE <<>>
      found == SelectSeq(full_log, IsErrorLine)
      error_lines == SubSeq(found, 1, IF Len(found) > MAX_ERROR_LINES
                                      THEN MAX_ERROR_LINES ELSE Len(found))
  IN IF Len(error_lines) > 0
     THEN error_lines \o <<Line("excerpt", <<>>)>> \o full_log
     ELSE IF Len(full_log) > 0 THEN full_log
     ELSE <<Line("unknown", <<>>)>>

\* the verdict reporting the log file as the artifact
Verdict_LogPath(files, me) ==
  IF FileExists(files, PdfFile(me)) \/ FileExists(files, LogFile(me))
  THEN Ret(TRUE, LogFile(me), <<>>)
  ELSE Ret(FALSE, NoPath, extract_error(files, LogFile(me)))

\* the verdict looking for the output file before the draft log
Verdict_ArtifactFirst(files, me) ==
  LET log_file == LogFile(me)
  IN IF FileExists(files, PdfFile(me)) THEN Ret(TRUE, PdfFile(me), <<>>)
     ELSE IF me.draft_mode /\ FileExists(files, log_file)
               /\ (HasLine(files[log_file], "nopages")
                     \/ ~HasLine(files[log_file], "written")
                     \/ \A i \in DOMAIN files[log_file] : ~HasBang(files[log_file][i]))
     THEN Ret(TRUE, NoPath, <<>>)
     ELSE Ret(FALSE, NoPath, extract_error(files, log_file))

\* lines 425-442: the verdict of _compile after the toolchain ran
Verdict(files, me) ==
  LET log_file == LogFile(me)
      pdf_file == PdfFile(me)
      by_pdf == IF FileExists(files, pdf_file)
                THEN Ret(TRUE, pdf_file, <<>>)
                ELSE Ret(FALSE, NoPath, extract_error(files, log_file))
  IN IF me.draft_mode /\ FileExists(files, log_file)
     THEN LET log_content == files[log_file]
          IN IF HasLine(log_content, "nopages") \/ ~HasLine(log_content, "written")
             THEN Ret(TRUE, NoPath, <<>>)
             ELSE IF \E i \in 1..Len(log_content) : HasBang(log_content[i])
             THEN Ret(FALSE, NoPath, extract_error(files, log_file))
             ELSE Ret(TRUE, NoPath, <<>>)
     ELSE by_pdf

Check(w) ==
  /\ workers[w].pc = "check"
  /\ Return(w, Verdict(fs.files, workers[w]))
  /\ UNCHANGED <<facade, cache_dir, fs, signals>>

(***************************************************************************)
(* CompilationWorker.run, after _compile returned                          *)
(***************************************************************************)

\* the terminal event emitted before the last progress message
Succeed_FinishedFirst(w) ==
  LET me == workers[w]
  IN /\ me.pc = "judge"
     /\ me.ret.success
     /\ signals' = signals \o
          <<Finished(w, TRUE, me.ret.pdf_path, <<>>, me.all_fixes),
            Progress(w, "Done!", 0)>>
     /\ workers' = [workers EXCEPT ![w].pc = "done"]
     /\ UNCHANGED <<facade, cache_dir, fs>>

\* lines 327-330
Succeed(w) ==
  LET me == workers[w]
  IN /\ me.pc = "judge"
     /\ me.ret.success
     /\ signals' = signals \o
          <<Progress(w, "Done!", 0),
            Finished(w, TRUE, me.ret.pdf_path, <<>>, me.all_fixes)>>
     /\ workers' = [workers EXCEPT ![w].pc = "done"]
     /\ UNCHANGED <<facade, cache_dir, fs>>

\* the budget test off by one: a repair after the last attempt of the loop
Exhausted_OffByOne(me) == ~me.autofix \/ me.attempt > MAX_FIX_ATTEMPTS

\* the budget test without the autofix switch
Exhausted_IgnoresAutofix(me) == me.attempt >= MAX_FIX_ATTEMPTS

\* the test of line 332 reading the facade's switch instead of the worker's copy
Exhausted_FacadeAutofix(me) == ~facade.autofix \/ me.attempt >= MAX_FIX_ATTEMPTS

\* line 332: no repair after this failure
Exhausted(me) == ~me.autofix \/ me.attempt >= MAX_FIX_ATTEMPTS

\* lines 332-334
GiveUp(w) ==
  LET me == workers[w]
  IN /\ me.pc = "judge"
     /\ ~me.ret.success
     /\ Exhausted(me)
     /\ signals' = Append(signals, Finished(w, FALSE, NoPath, me.ret.error, me.all_fixes))
     /\ workers' = [workers EXCEPT ![w].pc = "done"]
     /\ UNCHANGED <<facade, cache_dir, fs>>

\* lines 336-337: the repair engine is called with the error of the attempt
\* (fix holds its result: fixed_code, fixes, or the exception it raised)
Analyze(w) ==
  LET me == workers[w]
      r == comprehensive_fix(me.current_code, me.ret.error)
  IN /\ me.pc = "judge"
     /\ ~me.ret.success
     /\ ~Exhausted(me)
     /\ signals' = Append(signals, Progress(w, "Analyzing errors (attempt n)...", me.attempt + 1))
     /\ workers' = [workers EXCEPT ![w] =
          [me EXCEPT !.pc = "analyzed", !.fix = r,
                     !.repairs = Append(@, [code |-> me.current_code,
                                            error |-> me.ret.error, result |-> r])]]
     /\ UNCHANGED <<facade, cache_dir, fs>>

\* the convergence test left out
Converged_Never(fixed_code, fixes, current_code) == FALSE

\* the retry starting over from the caller's text
NextCode_Original(fixed_code, latex_code) == latex_code

\* line 339: no new fixes could be applied
Converged(fixed_code, fixes, current_code) ==
  fixed_code = current_code \/ Len(fixes) = 0

\* line 344: the text of the next attempt
NextCode(fixed_code, latex_code) == fixed_code

\* line 337 raised: nothing in run catches it, the thread ends
RepairRaises(w) ==
  LET me == workers[w]
  IN /\ me.pc = "analyzed"
     /\ me.fix.raised
     /\ workers' = [workers EXCEPT ![w].pc = "crashed"]
     /\ UNCHANGED <<facade, cache_dir, fs, signals>>

\* lines 339-342
RepairConverged(w) ==
  LET me == workers[w]
  IN /\ me.pc = "analyzed"
     /\ ~me.fix.raised
     /\ Converged(me.fix.code, me.fix.fixes, me.current_code)
     /\ signals' = Append(signals, Finished(w, FALSE, NoPath, me.ret.error, me.all_fixes))
     /\ workers' = [workers EXCEPT ![w].pc = "done"]
     /\ UNCHANGED <<facade, cache_dir, fs>>

\* lines 344-346 and the next round of the loop
RepairRetry(w) ==
  LET me == workers[w]
  IN /\ me.pc = "analyzed"
     /\ ~me.fix.raised
     /\ ~Converged(me.fix.code, me.fix.fixes, me.current_code)
     /\ signals' = Append(signals, Progress(w, "Applied n fix(es), retrying...", Len(me.fix.fixes)))
     /\ workers' = [workers EXCEPT ![w] =
          [me EXCEPT !.pc = "loop",
                     !.current_code = NextCode(me.fix.code, me.latex_code),
                     !.all_fixes = ExtendFixes(me.all_fixes, me.fix.fixes),
                     !.attempt = me.attempt + 1]]
     /\ UNCHANGED <<facade, cache_dir, fs>>

(***************************************************************************)
(* Specifications                                                          *)
(***************************************************************************)

\* the caller configures the facade, then issues one compile request
Caller ==
  \/ /\ facade.worker = 0
     /\ \E enabled \in BOOLEAN :
          \/ set_autofix(enabled)
          \/ set_quick_mode(enabled)
          \/ set_draft_mode(enabled)
  \/ /\ facade.worker = 0
     /\ \E latex_code \in InputDocs, output_name \in Names :
          compile(latex_code, output_name)

Next ==
  \/ /\ Caller
     /\ UNCHANGED lab
  \/ /\ \E w \in DOMAIN workers : PrePass(w)
     /\ UNCHANGED lab
  \/ /\ \E w \in DOMAIN workers : BeginAttempt(w)
     /\ UNCHANGED lab
  \/ /\ \E w \in DOMAIN workers : WriteTex(w)
     /\ UNCHANGED lab
  \/ /\ \E w \in DOMAIN workers : WriteTexFails(w)
     /\ UNCHANGED lab
  \/ /\ \E w \in DOMAIN workers : WhichFound(w)
     /\ UNCHANGED lab
  \/ /\ \E w \in DOMAIN workers : WhichMissing(w)
     /\ UNCHANGED lab
  \/ /\ \E w \in DOMAIN workers : LaunchFails(w)
     /\ UNCHANGED lab
  \/ /\ \E w \in DOMAIN workers : Popen(w)
     /\ UNCHANGED lab
  \/ /\ \E w \in DOMAIN workers : Poll(w)
     /\ UNCHANGED lab
  \/ /\ \E w \in DOMAIN workers : PollEnd(w)
     /\ UNCHANGED lab
  \/ /\ \E w \in DOMAIN workers : PassOneTimeout(w)
     /\ UNCHANGED lab
  \/ /\ \E w \in DOMAIN workers : PassTwoTimeout(w)
     /\ UNCHANGED lab
  \/ /\ \E w \in DOMAIN workers : Check(w)
     /\ UNCHANGED lab
  \/ /\ \E w \in DOMAIN workers : Succeed(w)
     /\ UNCHANGED lab
  \/ /\ \E w \in DOMAIN workers : GiveUp(w)
     /\ UNCHANGED lab
  \/ /\ \E w \in DOMAIN workers : Analyze(w)
     /\ UNCHANGED lab
  \/ /\ \E w \in DOMAIN workers : RepairRaises(w)
     /\ UNCHANGED lab
  \/ /\ \E w \in DOMAIN workers : RepairConverged(w)
     /\ UNCHANGED lab
  \/ /\ \E w \in DOMAIN workers : RepairRetry(w)
     /\ UNCHANGED lab
  \/ /\ \E w \in DOMAIN workers : ToolWritesPdf(w)
     /\ UNCHANGED lab
  \/ /\ \E w \in DOMAIN workers : ToolBlocks(w)
     /\ UNCHANGED lab
  \/ /\ \E w \in DOMAIN workers :
          \E outcome \in ToolOutcomes(workers[w].draft_mode) : PassOne(w, outcome)
     /\ UNCHANGED lab
  \/ /\ \E w \in DOMAIN workers :
          \E outcome \in ToolOutcomes(workers[w].draft_mode) : PassTwo(w, outcome)
     /\ UNCHANGED lab
  \/ /\ \E w \in DOMAIN workers :
          \E outcome \in ToolOutcomes(workers[w].draft_mode) : ToolExits(w, outcome)
     /\ UNCHANGED lab

Spec == Init /\ [][Next]_vars

(***************************************************************************)
(* Direct calls of the LatexAutoFixer methods                              *)
(***************************************************************************)

\* a text given to a LatexAutoFixer method is made of at most MaxFixPieces pieces
MaxFixPieces == 3

DocsOver(pieces) == {Flatten(ps) : ps \in SeqsUpTo(pieces, MaxFixPieces)}

LISTING == Env("lstlisting")

\* a braced group of text
GROUP == <<"{", "x", "}">>

\* texts for comprehensive_fix: a preamble with the opening of the body, the
\* terminal marker, free braces, a code listing, a braced group
AllPieces ==
  { HEAD, END_DOCUMENT, <<"{">>, <<"}">>, BeginMarker(LISTING), EndMarker(LISTING),
    GROUP }

\* texts for fix_brace_imbalance: free braces, a code listing, the terminal marker
BracePieces ==
  { <<"{">>, <<"}">>, BeginMarker(LISTING), EndMarker(LISTING), END_DOCUMENT }

\* two block kinds the count-based rules do not know
BLOCK_A == Env("myenv")
BLOCK_B == Env("verbatim")

\* texts for fix_truncated_document: blocks opened and closed, the body
\* opened, the terminal marker
TruncPieces ==
  { BeginMarker(BLOCK_A), EndMarker(BLOCK_A), BeginMarker(BLOCK_B),
    EndMarker(BLOCK_B), BEGIN_DOCUMENT, END_DOCUMENT }

\* the calls a run of FixSpec can start from
\* texts for the count-based rules: markers of the kind a rule counts, and
\* plain text
TEXT == <<"x">>
CountPieces(kind) ==
  { BeginMarker(Env(kind)), EndMarker(Env(kind)), TEXT }
TablePieces ==
  { BeginMarker(Env("tabularx")), EndMarker(Env("tabularx")),
    BeginMarker(Env("longtable")), EndMarker(Env("longtable")) }

\* texts for the structure rule: preamble lines, other lines, indentation
CLASS_LINE == <<"\\documentclass", "{", "article", "}">>
IMPORT_LINE == <<"\\usepackage", "{", "foo", "}">>
StructurePieces ==
  { CLASS_LINE, IMPORT_LINE, TEXT, <<NL>>, <<" ">>, BEGIN_DOCUMENT }

\* texts for the missing-package rule: imports of foo and of bar, one of them
\* a list of two packages, line breaks, and the comment prefix the rule writes
COMMENT == <<"% ">>
PackagePieces ==
  { IMPORT_LINE,
    <<"\\usepackage", "[opt]", "{", "foo", "}">>,
    <<"\\usepackage", "{", "bar", "}">>,
    <<"\\usepackage", "{", "foo", ",", "bar", "}">>,
    <<NL>>, COMMENT }

\* the package a diagnostic names
PackageNames == { <<"foo">> }

\* texts for the undefined-environment rule: markers of the environment the
\* diagnostic names and of another one, text and line breaks
OTHER_BLOCK == Env("description")
EnvPieces ==
  { BeginMarker(BLOCK_A), EndMarker(BLOCK_A), BeginMarker(OTHER_BLOCK),
    EndMarker(OTHER_BLOCK), TEXT, <<NL>> }

\* the environment a diagnostic names
EnvNames == { BLOCK_A }

\* the calls of one family: its texts with each of its arguments
Family(family, pieces, args) ==
  {NoCall(family, code, arg) : code \in DocsOver(pieces), arg \in args}

FixCalls ==
  Family("all", AllPieces, {<<>>})
  \cup Family("brace", BracePieces, {<<>>})
  \cup Family("trunc", TruncPieces, {<<>>})
  \cup Family("lstlisting", CountPieces("lstlisting"), {<<>>})
  \cup Family("tabularx", TablePieces, {<<>>})
  \cup Family("description", CountPieces("description"), {<<>>})
  \cup Family("multicols", CountPieces("multicols"), {<<>>})
  \cup Family("structure", StructurePieces, {<<>>})
  \cup Family("package", PackagePieces, PackageNames)
  \cup Family("env", EnvPieces, EnvNames)

FixInit ==
  /\ Idle
  /\ lab \in FixCalls

\* the method op is called on lab.code (and lab.arg) and returns result
Called(family, op, result) ==
  /\ lab.family = family
  /\ lab.op = "none"
  /\ lab' = [lab EXCEPT !.op = op, !.result = result]
  /\ UNCHANGED <<facade, cache_dir, fs, workers, signals>>

call_comprehensive_fix ==
  Called("all", "comprehensive_fix", comprehensive_fix(lab.code, lab.arg))

call_fix_brace_imbalance ==
  Called("brace", "fix_brace_imbalance", fix_brace_imbalance(lab.code))

call_fix_truncated_document ==
  Called("trunc", "fix_truncated_document", fix_truncated_document(lab.code))

call_fix_lstlisting_issues ==
  Called("lstlisting", "fix_lstlisting_issues", fix_lstlisting_issues(lab.code))

call_fix_tabularx_issues ==
  Called("tabularx", "fix_tabularx_issues", fix_tabularx_issues(lab.code))

call_fix_description_issues ==
  Called("description", "fix_description_issues",
         fix_description_issues(lab.code))

call_fix_multicol_issues ==
  Called("multicols", "fix_multicol_issues", fix_multicol_issues(lab.code))

call_ensure_document_structure ==
  Called("structure", "ensure_document_structure",
         ensure_document_structure(lab.code))

call_fix_package_not_found ==
  Called("package", "fix_package_not_found",
         fix_package_not_found(lab.code, lab.arg))

call_fix_undefined_environment ==
  Called("env", "fix_undefined_environment",
         fix_undefined_environment(lab.code, lab.arg))

FixNext ==
  \/ call_comprehensive_fix
  \/ call_fix_brace_imbalance
  \/ call_fix_truncated_document
  \/ call_fix_lstlisting_issues
  \/ call_fix_tabularx_issues
  \/ call_fix_description_issues
  \/ call_fix_multicol_issues
  \/ call_ensure_document_structure
  \/ call_fix_package_not_found
  \/ call_fix_undefined_environment

FixSpec == FixInit /\ [][FixNext]_vars

(***************************************************************************)
(* The orchestrator's outcomes (CompilationWorker.run)                     *)
(***************************************************************************)

\* the finished events worker w emitted, in order
FinishedOf(w) == SelectSeq(signals, LAMBDA s : s.w = w /\ s.sig = "finished")

\* the failure event run emits for the error of the last attempt
FailureOf(w) ==
  Finished(w, FALSE, NoPath, workers[w].ret.error, workers[w].all_fixes)

\* C1: a request makes at most MAX_FIX_ATTEMPTS + 1 = 6 compile attempts, the
\* repair engine is called at most 5 times, and when the sixth attempt has
\* failed the worker emits finished(false) with that error and calls the
\* repair engine no more.
C1_BoundedRetries ==
  \A w \in DOMAIN workers :
    LET me == workers[w]
    IN /\ Len(me.compiled) <= MAX_FIX_ATTEMPTS + 1
       /\ Len(me.repairs) <= MAX_FIX_ATTEMPTS
       /\ Len(me.errors) = MAX_FIX_ATTEMPTS + 1 =>
            /\ me.pc \in {"judge", "done"}
            /\ me.ret.error = me.errors[MAX_FIX_ATTEMPTS + 1]
            /\ me.pc = "done" => FinishedOf(w) = <<FailureOf(w)>>

\* six attempts were made, all six failed, and the request ended
C1_SixthAttemptFailed ==
  \E w \in DOMAIN workers :
    /\ Len(workers[w].errors) = MAX_FIX_ATTEMPTS + 1
    /\ workers[w].pc = "done"

\* C2: a request never has more than one finished event, and once its worker
\* thread has ended it has exactly one, in every mode and for every toolchain
\* behaviour.
C2_FinishedExactlyOnce ==
  \A w \in DOMAIN workers :
    /\ Len(FinishedOf(w)) <= 1
    /\ workers[w].pc \in {"done", "crashed"} => Len(FinishedOf(w)) = 1

\* a step of the last attempt, or the repair after it, failed internally
InternalFailure(me) ==
  \/ me.fix.raised
  \/ /\ ~me.ret.success
     /\ me.ret.error # <<>>
     /\ me.ret.error[1].kind \in {"exception", "timeout"}

\* C3: when the thread of a request has ended after an internal failure, it
\* emitted finished(false) with a diagnostic text and the fixes accumulated so
\* far; no error leaves run() without a finished event.
C3_FailureEndsWithFinished ==
  \A w \in DOMAIN workers :
    LET me == workers[w]
    IN (me.pc \in {"done", "crashed"} /\ InternalFailure(me)) =>
         /\ Len(FinishedOf(w)) = 1
         /\ ~FinishedOf(w)[1].success
         /\ FinishedOf(w)[1].error # <<>>
         /\ FinishedOf(w)[1].fixes = me.all_fixes

\* repair k returned without changing the text or without listing a fix
Unchanged(rep) ==
  /\ ~rep.result.raised
  /\ rep.result.code = rep.code \/ rep.result.fixes = <<>>

\* C4: when the repair after failed attempt k returns the text unchanged or an
\* empty fix list, no attempt k+1 is made and the worker emits finished(false)
\* with the error of attempt k; when this happens after the first attempt the
\* request made exactly one attempt.
C4_ConvergenceStops ==
  \A w \in DOMAIN workers :
    LET me == workers[w]
    IN \A k \in 1..Len(me.repairs) :
         Unchanged(me.repairs[k]) =>
           /\ k = Len(me.repairs)
           /\ Len(me.compiled) = k
           /\ me.pc \in {"analyzed", "done"}
           /\ me.ret.error = me.repairs[k].error
           /\ me.pc = "done" => FinishedOf(w) = <<FailureOf(w)>>

\* a request ended because the repair of a failed attempt, with budget left,
\* changed nothing
C4_Converged ==
  \E w \in DOMAIN workers :
    LET me == workers[w]
    IN /\ me.pc = "done"
       /\ me.repairs # <<>>
       /\ Unchanged(me.repairs[Len(me.repairs)])
       /\ Len(me.compiled) < MAX_FIX_ATTEMPTS + 1

\* C5: the text compiled by attempt k+1 is the text the repair engine returned
\* when it was called with the text of attempt k and the error of attempt k.
C5_NextFromPrevious ==
  \A w \in DOMAIN workers :
    LET me == workers[w]
    IN \A k \in 1..(Len(me.compiled) - 1) :
         /\ k <= Len(me.repairs)
         /\ me.repairs[k].code = me.compiled[k]
         /\ me.repairs[k].error = me.errors[k]
         /\ me.compiled[k + 1] = me.repairs[k].result.code

\* a third attempt whose text differs from the second, which differs from the
\* first
C5_ThirdAttempt ==
  \E w \in DOMAIN workers :
    LET me == workers[w]
    IN /\ Len(me.compiled) >= 3
       /\ me.compiled[3] # me.compiled[2]
       /\ me.compiled[2] # me.compiled[1]
       /\ me.compiled[3] # me.latex_code

\* the fixes of the pre-pass of a request
PrePassFixes(me) ==
  IF me.autofix THEN comprehensive_fix(me.latex_code, <<>>).fixes ELSE <<>>

\* the fixes the repairs after attempts 1..k returned
RECURSIVE RetryFixes(_, _)
RetryFixes(me, k) ==
  IF k = 0 THEN <<>>
  ELSE RetryFixes(me, k - 1) \o me.repairs[k].result.fixes

\* C6: the fix list of a finished event is the fixes of the pre-pass followed,
\* in attempt order, by the fixes of every repair that led to a further attempt.
C6_FixesAccumulate ==
  \A w \in DOMAIN workers :
    LET me == workers[w]
    IN \A i \in 1..Len(FinishedOf(w)) :
         FinishedOf(w)[i].fixes =
           PrePassFixes(me) \o RetryFixes(me, Len(me.compiled) - 1)

\* a request that ended after two retries, each of which added fixes to those
\* of the pre-pass
C6_TwoRetries ==
  \E w \in DOMAIN workers :
    LET me == workers[w]
    IN /\ Len(FinishedOf(w)) = 1
       /\ Len(me.compiled) >= 3
       /\ PrePassFixes(me) # <<>>
       /\ Len(FinishedOf(w)[1].fixes) > Len(PrePassFixes(me)) + 1

\* C7: with autofix disabled a request makes one attempt, the repair engine is
\* never called, and a failed attempt ends the request with finished(false)
\* carrying that attempt's error.
C7_AutofixDisabled ==
  \A w \in DOMAIN workers :
    LET me == workers[w]
    IN ~me.autofix =>
         /\ Len(me.compiled) <= 1
         /\ me.repairs = <<>>
         /\ ~me.prepass
         /\ me.errors # <<>> =>
              /\ me.pc \in {"judge", "done"}
              /\ me.ret.error = me.errors[1]
              /\ me.pc = "done" =>
                   FinishedOf(w) = <<Finished(w, FALSE, NoPath, me.errors[1], <<>>)>>

\* a request with autofix disabled ended after its only attempt failed
C7_FailedWithoutAutofix ==
  \E w \in DOMAIN workers :
    /\ ~workers[w].autofix
    /\ workers[w].pc = "done"
    /\ Len(workers[w].errors) = 1

\* C8 as stated: the text of the first attempt of every request is the output
\* of rules 1-4 on the caller's text.
C8_PrePassAlways ==
  \A w \in DOMAIN workers :
    LET me == workers[w]
    IN me.compiled # <<>> => me.compiled[1] = Structural(me.latex_code).code

\* C8 amended: with autofix enabled the text of the first attempt is the output
\* of rules 1-4 on the caller's text and rule 5 has no part in it; with autofix
\* disabled it is the caller's text; every later repair is called with the
\* text and the error of the attempt that just failed.
C8_PrePassWhenAutofix ==
  \A w \in DOMAIN workers :
    LET me == workers[w]
    IN /\ me.compiled # <<>> =>
            me.compiled[1] = IF me.autofix THEN Structural(me.latex_code).code
                             ELSE me.latex_code
       /\ \A k \in 1..Len(me.repairs) :
            /\ me.repairs[k].code = me.compiled[k]
            /\ me.repairs[k].error = me.errors[k]

\* a first attempt with autofix enabled on a text the pre-pass changed, and a
\* retry whose text rule 5 changed
C8_PrePassChangedText ==
  \E w \in DOMAIN workers :
    LET me == workers[w]
    IN /\ me.autofix
       /\ Len(me.compiled) >= 2
       /\ me.compiled[1] # me.latex_code
       /\ me.compiled[2] # Structural(me.compiled[1]).code

\* C9: an attempt that found no LaTeX toolchain is the last attempt of its
\* request, and the repair engine is not called for it.
C9_MissingToolchainIsFatal ==
  \A w \in DOMAIN workers :
    LET me == workers[w]
    IN \A k \in 1..Len(me.errors) :
         me.errors[k] = <<Line("notfound", <<>>)>> =>
           /\ Len(me.compiled) = k
           /\ Len(me.repairs) < k

\* C10 as stated: every finished(true) carries the path of the output file of
\* its request, in every mode.
C10_SuccessCarriesPath ==
  \A w \in DOMAIN workers :
    \A i \in 1..Len(FinishedOf(w)) :
      FinishedOf(w)[i].success => FinishedOf(w)[i].pdf_path = PdfFile(workers[w])

\* C10 amended: a finished(true) of a request not in draft mode carries the
\* path <cache directory>/<output name>.pdf of its request, and the file is
\* there; in draft mode, where the verdict is read from the log file, it
\* carries the empty path; in every mode it carries the cumulative fix list
\* and an empty diagnostic text.
C10_SuccessPathUnlessDraft ==
  \A w \in DOMAIN workers :
    LET me == workers[w]
    IN \A i \in 1..Len(FinishedOf(w)) :
         LET s == FinishedOf(w)[i]
         IN s.success =>
              /\ s.error = <<>>
              /\ s.fixes = me.all_fixes
              /\ s.pdf_path = IF me.draft_mode /\ FileExists(fs.files, LogFile(me))
                              THEN NoPath ELSE PdfFile(me)
              /\ s.pdf_path # NoPath => FileExists(fs.files, s.pdf_path)

\* a draft-mode request that succeeded, after a retry, with the empty path
C10_DraftSuccess ==
  \E w \in DOMAIN workers :
    /\ workers[w].draft_mode
    /\ workers[w].all_fixes # <<>>
    /\ Len(workers[w].compiled) >= 2
    /\ Len(FinishedOf(w)) = 1
    /\ FinishedOf(w)[1].success
    /\ FinishedOf(w)[1].pdf_path = NoPath

(***************************************************************************)
(* The build cache with several requests.  Workers are threads, so the     *)
(* lines of get_cache_dir are steps of their own here; BeginAttempt is the *)
(* same lines run by the only worker there is.  Each request is followed   *)
(* until its first attempt has got its directory; the directory may be     *)
(* removed from outside the program at any time.                           *)
(***************************************************************************)

MaxRequests == 3
MaxRemovals == 1

\* the calls of get_cache_dir that have returned, what each call in progress
\* saw at line 297 (and how many calls had returned by then), and the
\* directories removed from outside
NoCacheCalls ==
  [calls |-> <<>>, pending |-> <<>>, removed |-> {}]

\* LatexCompiler(autofix=False): the requests are compiled as they are given
CacheInit ==
  /\ facade = [autofix |-> FALSE, quick_mode |-> FALSE, draft_mode |-> FALSE,
               worker |-> 0, last_pdf_path |-> NoPath]
  /\ cache_dir = 0
  /\ fs = [dirs |-> {}, files |-> <<>>, made |-> 0]
  /\ workers = <<>>
  /\ signals = <<>>
  /\ lab = NoCacheCalls

\* lines 323-325 and 350: the loop head, up to the call of get_cache_dir
EnterCompile(w) ==
  LET me == workers[w]
  IN /\ me.pc = "loop"
     /\ InRange(me.attempt)
     /\ signals' = Append(signals, Progress(w, "Compiling... (attempt n)", me.attempt + 1))
     /\ workers' = [workers EXCEPT ![w] =
          [me EXCEPT !.pc = "cache", !.compiled = Append(@, me.current_code)]]
     /\ UNCHANGED <<facade, cache_dir, fs>>

\* line 297: the test of get_cache_dir
TestCacheDir(w) ==
  /\ workers[w].pc = "cache"
  /\ workers' = [workers EXCEPT ![w].pc =
       IF CacheDirNeeded THEN "mkdtemp" ELSE "cached"]
  /\ lab' = [lab EXCEPT !.pending =
       [x \in DOMAIN lab.pending \cup {w} |->
          IF x = w
          THEN [prev |-> cache_dir, live |-> ~CacheDirNeeded, dirs |-> fs.dirs,
                returned |-> Len(lab.calls)]
          ELSE lab.pending[x]]]
  /\ UNCHANGED <<facade, cache_dir, fs, signals>>

\* line 298: cls._cache_dir = tempfile.mkdtemp(...)
MakeCacheDir(w) ==
  /\ workers[w].pc = "mkdtemp"
  /\ fs' = [fs EXCEPT !.dirs = @ \cup {fs.made + 1}, !.made = @ + 1]
  /\ cache_dir' = fs.made + 1
  /\ workers' = [workers EXCEPT ![w].pc = "cached"]
  /\ UNCHANGED <<facade, signals, lab>>

\* lines 299 and 350: self.temp_dir = (return) cls._cache_dir
ReturnCacheDir(w) ==
  /\ workers[w].pc = "cached"
  /\ workers' = [workers EXCEPT ![w] = [@ EXCEPT !.pc = "write", !.temp_dir = cache_dir]]
  /\ lab' = [lab EXCEPT !.calls =
       Append(@, [w |-> w, seen |-> lab.pending[w], ret |-> cache_dir,
                  dirs |-> fs.dirs])]
  /\ UNCHANGED <<facade, cache_dir, fs, signals>>

\* the directory dir and the files in it are removed from outside the program
RemoveCacheDir(dir) ==
  /\ dir \in fs.dirs
  /\ Cardinality(lab.removed) < MaxRemovals
  /\ fs' = [fs EXCEPT !.dirs = @ \ {dir},
                      !.files = [q \in {x \in DOMAIN fs.files : x[1] # dir} |->
                                   fs.files[q]]]
  /\ lab' = [lab EXCEPT !.removed = @ \cup {dir}]
  /\ UNCHANGED <<facade, cache_dir, workers, signals>>

\* LatexCompiler.cleanup: the worker's cleanup() does nothing
cleanup ==
  /\ facade.worker # 0
  /\ UNCHANGED vars

CacheNext ==
  \/ /\ Len(workers) < MaxRequests
     /\ compile(DOC, "output")
     /\ UNCHANGED lab
  \/ /\ \E w \in DOMAIN workers : PrePass(w)
     /\ UNCHANGED lab
  \/ /\ \E w \in DOMAIN workers : EnterCompile(w)
     /\ UNCHANGED lab
  \/ \E w \in DOMAIN workers : TestCacheDir(w)
  \/ \E w \in DOMAIN workers : MakeCacheDir(w)
  \/ \E w \in DOMAIN workers : ReturnCacheDir(w)
  \/ \E dir \in fs.dirs : RemoveCacheDir(dir)
  \/ cleanup

CacheSpec == CacheInit /\ [][CacheNext]_vars

(***************************************************************************)
(* The repair rules (LatexAutoFixer)                                       *)
(***************************************************************************)

\* the block kinds of the count-based rules
HeavyKinds == {"lstlisting", "tabularx", "longtable", "description", "multicols"}

\* the number of braces b outside code-listing regions
BracesOutside(code, b) == Count(OutsideLstlisting(code, 1), <<b>>)

\* the terminal marker is there, braces balance outside code listings, no
\* heavy block kind has more begin-markers than end-markers
Closed(code) ==
  /\ Contains(code, END_DOCUMENT)
  /\ BracesOutside(code, "{") = BracesOutside(code, "}")
  /\ \A kind \in HeavyKinds :
       Count(code, BeginMarker(Env(kind))) <= Count(code, EndMarker(Env(kind)))

\* comprehensive_fix was called without a diagnostic
NoDiagnosticCall == lab.op = "comprehensive_fix" /\ lab.arg = <<>>

\* C11 as stated: comprehensive_fix without a diagnostic returns every text
\* that has the terminal marker, balanced braces outside code listings and no
\* heavy block left open unchanged, with an empty fix list.
C11_IdempotentOnClosed ==
  (NoDiagnosticCall /\ Closed(lab.code)) => lab.result = Result(lab.code, <<>>)

\* C11 amended: the same for every such text that also has a document-class
\* declaration and a begin-document marker.
C11_IdempotentOnWellFormed ==
  ( /\ NoDiagnosticCall
    /\ Closed(lab.code)
    /\ Contains(lab.code, DOCUMENTCLASS)
    /\ Contains(lab.code, BEGIN_DOCUMENT) ) => lab.result = Result(lab.code, <<>>)

\* comprehensive_fix returned a well-formed text holding a braced group
C11_WellFormedCall ==
  /\ NoDiagnosticCall
  /\ Closed(lab.code)
  /\ Contains(lab.code, DOCUMENTCLASS)
  /\ Contains(lab.code, BEGIN_DOCUMENT)
  /\ Contains(lab.code, GROUP)
  /\ lab.result.code = lab.code

\* the position of the last occurrence of p in s (0: none)
LastIndexOf(s, p) ==
  LET hits == {i \in 1..Len(s) : StartsWithAt(s, p, i)}
  IN IF hits = {} THEN 0 ELSE CHOOSE i \in hits : \A k \in hits : k <= i

\* s with ins put in front of position i
InsertAt(s, i, ins) == SubSeq(s, 1, i - 1) \o ins \o SubSeq(s, i, Len(s))

\* C12: when a text has O opening and C closing braces outside code listings
\* and O > C, fix_brace_imbalance returns the text with exactly O - C closing
\* braces put in front of the terminal marker (at the end when there is no
\* marker) and nothing else changed, and one fix naming O - C.  The line break
\* that separates the new braces from the marker is not counted as a change.
C12_BraceInsertion ==
  LET O == BracesOutside(lab.code, "{")
      C == BracesOutside(lab.code, "}")
      at == LastIndexOf(lab.code, END_DOCUMENT)
      closers == Repeat(<<"}">>, O - C)
  IN (lab.op = "fix_brace_imbalance" /\ O > C) =>
       /\ lab.result.code =
            IF at = 0 THEN lab.code \o closers
            ELSE InsertAt(lab.code, at, closers \o <<NL>>)
       /\ lab.result.fixes = <<Fix("Added n missing closing brace(s)", O - C, <<>>)>>

\* C13: in the text fix_brace_imbalance returns, opening and closing braces
\* outside code listings are equal in number; when the text had C closing and
\* O < C opening braces, exactly C - O closing braces were removed, each the
\* last closing brace of the whole text when it was removed.
C13_BraceBalance ==
  LET O == BracesOutside(lab.code, "{")
      C == BracesOutside(lab.code, "}")
  IN lab.op = "fix_brace_imbalance" =>
       /\ BracesOutside(lab.result.code, "{") = BracesOutside(lab.result.code, "}")
       /\ C > O =>
            /\ Len(lab.result.code) = Len(lab.code) - (C - O)
            /\ lab.result.code = RemoveLastBraces(lab.code, C - O)

\* the name of the marker cmd{name} at position i of s (<<>>: no marker there)
MarkerAt(s, cmd, i) ==
  IF s[i] = cmd /\ i + 1 <= Len(s) /\ s[i + 1] = "{"
  THEN LET e == WordRunEnd(s, i + 2)
       IN IF e > i + 2 /\ e <= Len(s) /\ s[e] = "}" THEN SubSeq(s, i + 2, e - 1)
          ELSE <<>>
  ELSE <<>>

\* stack without its most recent entry env (unchanged when it holds none)
Unstack(stack, env) ==
  LET hits == {i \in 1..Len(stack) : stack[i] = env}
  IN IF hits = {} THEN stack
     ELSE LET top == CHOOSE i \in hits : \A k \in hits : k <= i
          IN SubSeq(stack, 1, top - 1) \o SubSeq(stack, top + 1, Len(stack))

\* the blocks still open at the end of s, outermost first: one scan of the
\* begin- and end-markers from position i in document order, each end-marker
\* paired with the most recent unmatched begin-marker of its kind
RECURSIVE OpenBlocks(_, _, _)
OpenBlocks(s, i, stack) ==
  IF i > Len(s) THEN stack
  ELSE LET b == MarkerAt(s, "\\begin", i)
           e == MarkerAt(s, "\\end", i)
       IN IF b # <<>> THEN OpenBlocks(s, i + Len(b) + 3, Append(stack, b))
          ELSE IF e # <<>> THEN OpenBlocks(s, i + Len(e) + 3, Unstack(stack, e))
          ELSE OpenBlocks(s, i + 1, stack)

\* the named blocks left open in s: the document body is not one of them
UnmatchedBlocks(s) ==
  SelectSeq(OpenBlocks(s, 1, <<>>), LAMBDA env : env # Env("document"))

\* text with the end-markers of the blocks of stack appended, innermost first
RECURSIVE ClosedInnermostFirst(_, _)
ClosedInnermostFirst(text, stack) ==
  IF stack = <<>> THEN text
  ELSE ClosedInnermostFirst(text \o <<NL>> \o EndMarker(stack[Len(stack)]),
                            SubSeq(stack, 1, Len(stack) - 1))

\* one fix for each block of stack, innermost first
RECURSIVE ClosingFixes(_)
ClosingFixes(stack) ==
  IF stack = <<>> THEN <<>>
  ELSE <<Fix("Closed unclosed environment", 0, stack[Len(stack)])>>
       \o ClosingFixes(SubSeq(stack, 1, Len(stack) - 1))

\* C14: for a text without the terminal marker whose unmatched named blocks
\* are, outermost first, A, B, C, fix_truncated_document appends the
\* end-markers of C, B, A in that order and then the terminal marker, and
\* records one fix for each block closed followed by one for the marker.
C14_LifoClosure ==
  LET open == UnmatchedBlocks(lab.code)
  IN (lab.op = "fix_truncated_document" /\ ~Contains(lab.code, END_DOCUMENT)) =>
       /\ lab.result.code =
            ClosedInnermostFirst(lab.code, open) \o <<NL>> \o END_DOCUMENT
       /\ lab.result.fixes =
            ClosingFixes(open) \o <<Fix("Added missing \\end{document}", 0, <<>>)>>

\* s ends with p
EndsWith(s, p) ==
  Len(s) >= Len(p) /\ SubSeq(s, Len(s) - Len(p) + 1, Len(s)) = p

\* C15: the text comprehensive_fix returns when called without a diagnostic
\* ends with the terminal marker, for every text given to it.
C15_EndsWithTerminalMarker ==
  NoDiagnosticCall => EndsWith(lab.result.code, END_DOCUMENT)

\* the block kinds each count-based rule balances, in the order it does
CountedKinds ==
  [ fix_lstlisting_issues |-> <<"lstlisting">>,
    fix_tabularx_issues |-> <<"tabularx", "longtable">>,
    fix_description_issues |-> <<"description">>,
    fix_multicol_issues |-> <<"multicols">> ]

CountRules == DOMAIN CountedKinds

\* begin-markers of the kind minus its end-markers, nowhere paired
Surplus(code, kind) ==
  Count(code, BeginMarker(Env(kind))) - Count(code, EndMarker(Env(kind)))

\* the end-markers the kinds are owed, in total
RECURSIVE Owed(_, _)
Owed(code, kinds) ==
  IF Len(kinds) = 0 THEN 0
  ELSE (IF Surplus(code, Head(kinds)) > 0 THEN Surplus(code, Head(kinds)) ELSE 0)
       + Owed(code, Tail(kinds))

\* C16: a count-based rule leaves the text as a prefix of its result; for
\* each kind it counts, with b begin-markers and e end-markers, b > e gives
\* exactly b-e end-markers of the kind appended and exactly one fix, which
\* names the kind and b-e; b <= e gives nothing appended and no fix for the
\* kind; nothing else is appended or recorded.
C16_CountBalance ==
  lab.op \in CountRules =>
    LET kinds == CountedKinds[lab.op]
        out == lab.result
        appended == SubSeq(out.code, Len(lab.code) + 1, Len(out.code))
        fixesOf(k) == {i \in DOMAIN out.fixes : out.fixes[i].name = Env(k)}
    IN /\ Len(out.code) >= Len(lab.code)
       /\ SubSeq(out.code, 1, Len(lab.code)) = lab.code
       /\ Len(appended) = Owed(lab.code, kinds) * (1 + Len(EndMarker(Env("k"))))
       /\ \A j \in DOMAIN kinds :
            LET d == Surplus(lab.code, kinds[j])
            IN IF d > 0
               THEN /\ Count(appended, <<NL>> \o EndMarker(Env(kinds[j]))) = d
                    /\ \E i \in DOMAIN out.fixes :
                         /\ fixesOf(kinds[j]) = {i}
                         /\ out.fixes[i].n = d
               ELSE /\ Count(appended, EndMarker(Env(kinds[j]))) = 0
                    /\ fixesOf(kinds[j]) = {}
       /\ \A i \in DOMAIN out.fixes : \E j \in DOMAIN kinds :
            out.fixes[i].name = Env(kinds[j])

\* a rule has closed a surplus of two blocks of one kind and one of another
C16_TwoKindsClosed ==
  /\ lab.op = "fix_tabularx_issues"
  /\ Surplus(lab.code, "tabularx") = 2
  /\ Surplus(lab.code, "longtable") = 1

\* lines with the line at 0-based index idx taken out
ListRemove(lines, idx) ==
  SubSeq(lines, 1, idx) \o SubSeq(lines, idx + 2, Len(lines))

\* idx is the index just after the last preamble line of lines, 0 without one
AfterLastPreambleLine(lines, idx) ==
  /\ idx \in 0..Len(lines)
  /\ idx = 0 \/ IsPreambleLine(lines[idx])
  /\ \A k \in (idx + 1)..Len(lines) : ~IsPreambleLine(lines[k])

\* C17: ensure_document_structure puts the default class declaration in
\* front as the first line when the text has none; when the text has no
\* begin-document marker it inserts one as a line of its own just after the
\* last line that starts with a preamble directive, or at index 0 when no
\* line does; every other line keeps its content and its place in the order.
C17_StructureEnsured ==
  lab.op = "ensure_document_structure" =>
    LET old == SplitLines(lab.code)
        new == SplitLines(lab.result.code)
        classed == IF Contains(lab.code, DOCUMENTCLASS) THEN old
                   ELSE <<DEFAULT_CLASS>> \o old
    IN IF Contains(lab.code, BEGIN_DOCUMENT)
       THEN new = classed
       ELSE \E idx \in 0..(Len(new) - 1) :
              /\ new[idx + 1] = BEGIN_DOCUMENT
              /\ ListRemove(new, idx) = classed
              /\ AfterLastPreambleLine(classed, idx)

\* the marker went in after the last of two preamble lines that have another
\* line between them (the first is the class declaration just added)
C17_InsertedAfterLastPreambleLine ==
  /\ lab.op = "ensure_document_structure"
  /\ ~Contains(lab.code, BEGIN_DOCUMENT)
  /\ ~Contains(lab.code, DOCUMENTCLASS)
  /\ \E j, k \in 1..Len(SplitLines(lab.code)) :
       /\ j < k
       /\ ~IsPreambleLine(SplitLines(lab.code)[j])
       /\ IsPreambleLine(SplitLines(lab.code)[k])

\* the atoms that start or are a LaTeX comment
CommentAtoms ==
  {"% ", "  % Package not available", "% Undefined environment: ", "% End: "}

\* position i of s lies behind a comment sign on its line
Commented(s, i) ==
  \E c \in 1..(i - 1) :
    /\ s[c] \in CommentAtoms
    /\ \A k \in c..i : s[k] # NL

\* the packages the \usepackage at position i of s loads: the names in its
\* braces, after the options if it has any
Imported(s, i) ==
  LET open == IF i + 1 <= Len(s) /\ s[i + 1] \in OptionAtoms THEN i + 2 ELSE i + 1
      close == FindFrom(s, <<"}">>, open)
  IN IF s[i] = "\\usepackage" /\ open <= Len(s) /\ s[open] = "{" /\ close # 0
     THEN {s[k] : k \in (open + 1)..(close - 1)} \ {","}
     ELSE {}

\* the positions of the imports of package name that LaTeX would execute
ActiveImports(s, name) ==
  {i \in 1..Len(s) : name \in Imported(s, i) /\ ~Commented(s, i)}

\* s without its comment signs
Uncommented(s) == SelectSeq(s, LAMBDA a : a \notin CommentAtoms)

\* C18: when the text holds an active import of the package R the diagnostic
\* names, the missing-package repair leaves no active import of R, keeps the
\* active imports of every other package, only adds comment signs to the
\* text, and records one fix that names R; when the text holds no active
\* import of R it returns the text unchanged and no fix.
C18_OnlyMissingImportDisabled ==
  lab.op = "fix_package_not_found" =>
    LET R == lab.arg[1]
        out == lab.result
    IN /\ ~out.raised
       /\ IF ActiveImports(lab.code, R) # {}
          THEN /\ ActiveImports(out.code, R) = {}
               /\ \A S \in WordAtoms \ {R} :
                    Cardinality(ActiveImports(out.code, S))
                      = Cardinality(ActiveImports(lab.code, S))
               /\ Uncommented(out.code) = Uncommented(lab.code)
               /\ Len(out.fixes) = 1
               /\ out.fixes[1].name = lab.arg
          ELSE /\ out.code = lab.code
               /\ out.fixes = <<>>

\* what stands for \begin{K} and for \end{K} after the repair
OpenPlaceholder(K) ==
  <<"% Undefined environment: ">> \o K \o <<NL>> \o BeginMarker(Env("verbatim"))
ClosePlaceholder(K) ==
  EndMarker(Env("verbatim")) \o <<NL, "% End: ">> \o K

\* the positions of the markers \begin{env} and \end{env} that LaTeX would
\* execute
ActiveMarkers(s, env) ==
  {i \in 1..Len(s) :
     /\ StartsWithAt(s, BeginMarker(env), i) \/ StartsWithAt(s, EndMarker(env), i)
     /\ ~Commented(s, i)}

\* C19: when the text holds a begin-marker of the undefined environment K,
\* the repair leaves no begin- or end-marker of K, puts a verbatim
\* placeholder with its comment line where each of them stood, keeps all
\* other text where it was, and leaves the markers of every other
\* environment in effect.
C19_UndefinedBlockReplaced ==
  (lab.op = "fix_undefined_environment"
     /\ Contains(lab.code, BeginMarker(lab.arg))) =>
    LET K == lab.arg
        out == lab.result.code
    IN /\ ~Contains(out, BeginMarker(K))
       /\ ~Contains(out, EndMarker(K))
       /\ Count(out, OpenPlaceholder(K)) = Count(lab.code, BeginMarker(K))
       /\ Count(out, ClosePlaceholder(K)) = Count(lab.code, EndMarker(K))
       /\ Replace(Replace(out, OpenPlaceholder(K), BeginMarker(K)),
                  ClosePlaceholder(K), EndMarker(K)) = lab.code
       /\ Cardinality(ActiveMarkers(out, OTHER_BLOCK))
            = Cardinality(ActiveMarkers(lab.code, OTHER_BLOCK))

(***************************************************************************)
(* The build cache                                                         *)
(***************************************************************************)

\* C20: a call of get_cache_dir that finds no directory, or finds that the
\* directory is gone from the disk, returns a directory made after it began;
\* a call returns the directory that a call which had returned before it
\* began got, when that directory is still on the disk; and no directory
\* ever made is missing from the disk unless it was removed from outside.
C20_CacheDirIdempotent ==
  /\ \A k \in DOMAIN lab.calls :
       LET c == lab.calls[k]
       IN /\ ~c.seen.live => c.ret \in (1..fs.made) \ c.seen.dirs
          /\ \A j \in 1..c.seen.returned :
               lab.calls[j].ret \in c.dirs => c.ret = lab.calls[j].ret
  /\ fs.dirs = (1..fs.made) \ lab.removed

(***************************************************************************)
(* Settings changed while a request is in flight                           *)
(***************************************************************************)

\* the texts compiled when the settings change under way: a well-formed
\* document, and an import that a failed attempt can disable
IMPORT_FOO == <<"\\usepackage", "{", "foo", "}", NL>>

ConfigDocs == {DOC, IMPORT_FOO}

\* what the caller asked for: the last argument of each setter (the
\* constructor's defaults before any call), and those values at each compile()
NoCalls ==
  [set |-> [autofix |-> TRUE, quick_mode |-> FALSE, draft_mode |-> FALSE],
   requested |-> <<>>]

ConfigInit ==
  /\ Idle
  /\ lab = NoCalls

call_set_autofix(enabled) ==
  /\ set_autofix(enabled)
  /\ lab' = [lab EXCEPT !.set.autofix = enabled]

call_set_quick_mode(enabled) ==
  /\ set_quick_mode(enabled)
  /\ lab' = [lab EXCEPT !.set.quick_mode = enabled]

call_set_draft_mode(enabled) ==
  /\ set_draft_mode(enabled)
  /\ lab' = [lab EXCEPT !.set.draft_mode = enabled]

call_compile(latex_code, output_name) ==
  /\ compile(latex_code, output_name)
  /\ lab' = [lab EXCEPT !.requested = Append(@, lab.set)]

\* the steps of a worker thread up to the end of an attempt, and those of the
\* toolchain it runs
AttemptStep ==
  \/ \E w \in DOMAIN workers : PrePass(w)
  \/ \E w \in DOMAIN workers : BeginAttempt(w)
  \/ \E w \in DOMAIN workers : WriteTex(w)
  \/ \E w \in DOMAIN workers : WriteTexFails(w)
  \/ \E w \in DOMAIN workers : WhichFound(w)
  \/ \E w \in DOMAIN workers : WhichMissing(w)
  \/ \E w \in DOMAIN workers : LaunchFails(w)
  \/ \E w \in DOMAIN workers : Popen(w)
  \/ \E w \in DOMAIN workers : Poll(w)
  \/ \E w \in DOMAIN workers : PollEnd(w)
  \/ \E w \in DOMAIN workers : PassOneTimeout(w)
  \/ \E w \in DOMAIN workers : PassTwoTimeout(w)
  \/ \E w \in DOMAIN workers : Check(w)
  \/ \E w \in DOMAIN workers : Succeed(w)
  \/ \E w \in DOMAIN workers : GiveUp(w)
  \/ \E w \in DOMAIN workers : ToolWritesPdf(w)
  \/ \E w \in DOMAIN workers : ToolBlocks(w)
  \/ \E w \in DOMAIN workers :
       \E outcome \in ToolOutcomes(workers[w].draft_mode) : PassOne(w, outcome)
  \/ \E w \in DOMAIN workers :
       \E outcome \in ToolOutcomes(workers[w].draft_mode) : PassTwo(w, outcome)
  \/ \E w \in DOMAIN workers :
       \E outcome \in ToolOutcomes(workers[w].draft_mode) : ToolExits(w, outcome)

\* lines 336-346: the steps of a repair, taken only with autofix on
RepairStep ==
  \/ \E w \in DOMAIN workers : Analyze(w)
  \/ \E w \in DOMAIN workers : RepairRaises(w)
  \/ \E w \in DOMAIN workers : RepairConverged(w)
  \/ \E w \in DOMAIN workers : RepairRetry(w)

WorkerStep == AttemptStep \/ RepairStep

\* one compile request; the setters are called at any time, before it and
\* while its worker runs
ConfigNext ==
  \/ \E enabled \in BOOLEAN : call_set_autofix(enabled)
  \/ \E enabled \in BOOLEAN : call_set_quick_mode(enabled)
  \/ \E enabled \in BOOLEAN : call_set_draft_mode(enabled)
  \/ /\ facade.worker = 0
     /\ \E latex_code \in ConfigDocs : call_compile(latex_code, "output")
  \/ /\ WorkerStep
     /\ UNCHANGED lab

ConfigSpec == ConfigInit /\ [][ConfigNext]_vars

\* the progress messages of worker w
MessagesOf(w) ==
  {signals[i].msg : i \in {j \in DOMAIN signals :
                             signals[j].w = w /\ signals[j].sig = "progress"}}

\* C21: a worker holds the autofix, quick and draft values the setters had
\* been given when its compile() was called, whatever the setters are given
\* afterwards, and every attempt follows them: the pre-pass runs and each
\* failed attempt within the budget is analysed exactly when autofix was on,
\* the toolchain is streamed exactly when quick was on, and success comes
\* without an artifact path exactly when draft was on.
C21_ConfigReadAtStart ==
  \A w \in DOMAIN workers :
    LET me == workers[w]
        c == lab.requested[w]
    IN /\ me.autofix = c.autofix
       /\ me.quick_mode = c.quick_mode
       /\ me.draft_mode = c.draft_mode
       /\ me.pc # "start" => me.prepass = c.autofix
       /\ ~c.autofix => me.repairs = <<>>
       /\ (c.autofix /\ me.pc = "done" /\ Len(me.errors) <= MAX_FIX_ATTEMPTS) =>
            Len(me.repairs) = Len(me.errors)
       /\ "Streaming compile..." \in MessagesOf(w) => c.quick_mode
       /\ "Running pdflatex (pass 1/2)..." \in MessagesOf(w) => ~c.quick_mode
       /\ \A i \in DOMAIN signals :
            (signals[i].w = w /\ signals[i].sig = "finished" /\ signals[i].success) =>
              (signals[i].pdf_path = NoPath <=> c.draft_mode)

\* a worker started with autofix on, full mode and no draft is analysing its
\* second failed attempt while the facade now holds the three opposite values
C21_SettingsChangedInFlight ==
  \E w \in DOMAIN workers :
    /\ lab.requested[w] = [autofix |-> TRUE, quick_mode |-> FALSE, draft_mode |-> FALSE]
    /\ ~facade.autofix /\ facade.quick_mode /\ facade.draft_mode
    /\ workers[w].pc = "analyzed"
    /\ Len(workers[w].repairs) = 2

(***************************************************************************)
(* The events of a request                                                 *)
(***************************************************************************)

\* the events of request w in emission order: the facade's
\* compilation_started for it, then what its worker emitted
EventsOf(w) ==
  SelectSeq(signals, LAMBDA s : s.w = w \/ (s.sig = "compilation_started" /\ s.n = w))

\* the messages emitted from inside _compile
ToolMessages ==
  {"Streaming compile...", "Compiling... (n KB)",
   "Running pdflatex (pass 1/2)...", "Running pdflatex (pass 2/2)..."}

\* where a request stands after event s, coming from stage st of attempt k
\* ("out of order" when s may not follow)
AfterEvent(st, k, s) ==
  LET to(stage, n) == [stage |-> stage, k |-> n]
      bad == to("out of order", k)
  IN IF s.sig = "compilation_started"
       THEN IF st = "none" THEN to("started", 0) ELSE bad
     ELSE IF s.sig = "page_ready"
       THEN IF st \in {"attempt", "tool"} THEN to("tool", k) ELSE bad
     ELSE IF s.sig = "finished"
       THEN IF s.success
            THEN IF st = "succeeded" THEN to("finished", k) ELSE bad
            ELSE IF st \in {"attempt", "tool", "analysis"} THEN to("finished", k) ELSE bad
     ELSE IF s.msg = "Pre-checking document structure..."
       THEN IF st = "started" THEN to("pre-check", 0) ELSE bad
     ELSE IF s.msg = "Applied n pre-compilation fix(es)"
       THEN IF st = "pre-check" THEN to("pre-fixed", 0) ELSE bad
     ELSE IF s.msg = "Compiling... (attempt n)"
       THEN IF /\ s.n = k + 1
               /\ \/ k = 0 /\ st \in {"started", "pre-check", "pre-fixed"}
                  \/ k > 0 /\ st = "retry"
            THEN to("attempt", s.n) ELSE bad
     ELSE IF s.msg \in ToolMessages
       THEN IF st \in {"attempt", "tool"} THEN to("tool", k) ELSE bad
     ELSE IF s.msg = "Done!"
       THEN IF st \in {"attempt", "tool"} THEN to("succeeded", k) ELSE bad
     ELSE IF s.msg = "Analyzing errors (attempt n)..."
       THEN IF st \in {"attempt", "tool"} /\ s.n = k THEN to("analysis", k) ELSE bad
     ELSE IF s.msg = "Applied n fix(es), retrying..."
       THEN IF st = "analysis" THEN to("retry", k) ELSE bad
     ELSE bad

\* the stage an event leads to when it comes in order
StageOf(s) ==
  CASE s.sig = "compilation_started" -> "started"
    [] s.sig = "page_ready" -> "tool"
    [] s.sig = "finished" -> "finished"
    [] s.msg = "Pre-checking document structure..." -> "pre-check"
    [] s.msg = "Applied n pre-compilation fix(es)" -> "pre-fixed"
    [] s.msg = "Compiling... (attempt n)" -> "attempt"
    [] s.msg \in ToolMessages -> "tool"
    [] s.msg = "Done!" -> "succeeded"
    [] s.msg = "Analyzing errors (attempt n)..." -> "analysis"
    [] s.msg = "Applied n fix(es), retrying..." -> "retry"
    [] OTHER -> "out of order"

\* where a request stands after the first i events of evs when these came in
\* order: the stage of the last one, and the number of the last attempt begun
PositionAfter(evs, i) ==
  LET begun == {j \in 1..i : evs[j].msg = "Compiling... (attempt n)"}
  IN [stage |-> IF i = 0 THEN "none" ELSE StageOf(evs[i]),
      k |-> IF begun = {} THEN 0
            ELSE evs[CHOOSE j \in begun : \A x \in begun : x <= j].n]

\* every event of evs may follow the events before it
InOrder(evs) ==
  \A i \in 1..Len(evs) :
    /\ StageOf(evs[i]) # "out of order"
    /\ AfterEvent(PositionAfter(evs, i - 1).stage, PositionAfter(evs, i - 1).k, evs[i])
         = PositionAfter(evs, i)

\* the stage reached by the events evs, read in order from the beginning
StageAfter(evs) ==
  IF InOrder(evs) THEN PositionAfter(evs, Len(evs))
  ELSE [stage |-> "out of order", k |-> PositionAfter(evs, Len(evs)).k]

\* C22: the events of a request come in the order of its transitions:
\* compilation_started first, then the pre-check, then for k = 1, 2, ... the
\* events of attempt k, of analysis k and of the retry, and nothing after the
\* finished event; the worker's position agrees with the events read so far.
C22_EventOrder ==
  \A w \in DOMAIN workers :
    LET at == StageAfter(EventsOf(w))
        me == workers[w]
    IN /\ at.stage # "out of order"
       /\ at.stage = "finished" <=> me.pc = "done"
       /\ at.k = Len(me.compiled)
       /\ at.stage \in {"analysis", "retry"} => Len(me.repairs) = at.k

\* a request went through pre-check, attempt 1, analysis 1, retry and a
\* streamed attempt 2 that refreshed the artifact, and has finished
C22_RetriedAndFinished ==
  \E w \in DOMAIN workers :
    LET evs == EventsOf(w)
    IN /\ workers[w].pc = "done"
       /\ Len(workers[w].compiled) = 2
       /\ workers[w].prepass
       /\ \E i \in DOMAIN evs : evs[i].sig = "page_ready"
       /\ evs[Len(evs)].sig = "finished"

\* what worker w emitted, in emission order
EmittedBy(w) == SelectSeq(signals, LAMBDA s : s.w = w)

IsPageReady(s) == s.sig = "page_ready"

\* C23 as stated: only workers in quick mode emit page_ready events.
C23_RefreshOnlyWhenStreaming ==
  \A i \in DOMAIN signals :
    IsPageReady(signals[i]) => workers[signals[i].w].quick_mode

\* C23: every page_ready event names the existing output file of its request
\* with the marker -1; a worker in quick mode emits one, followed by the size
\* message, each time it sees the file grown, and a worker in full mode emits
\* at most one per attempt, right after announcing pass 1 and before pass 2.
C23_RefreshPerMode ==
  \A w \in DOMAIN workers :
    LET me == workers[w]
        evs == EmittedBy(w)
    IN /\ \A i \in DOMAIN evs :
            IsPageReady(evs[i]) =>
              /\ evs[i].pdf_path = PdfFile(me)
              /\ evs[i].n = -1
              /\ FileExists(fs.files, evs[i].pdf_path)
              /\ IF me.quick_mode
                 THEN i < Len(evs) /\ evs[i + 1].msg = "Compiling... (n KB)"
                 ELSE i > 1 /\ evs[i - 1].msg = "Running pdflatex (pass 1/2)..."
       /\ ~me.quick_mode => Len(SelectSeq(evs, IsPageReady)) <= Len(me.compiled)

\* a worker in full mode has emitted a page_ready event after its first pass
C23_FullModeRefresh ==
  \E w \in DOMAIN workers :
    /\ ~workers[w].quick_mode
    /\ \E i \in DOMAIN signals : signals[i].w = w /\ IsPageReady(signals[i])

(***************************************************************************)
(* A draft request after an earlier request of the same name               *)
(***************************************************************************)

\* LatexCompiler(autofix=False): each request makes one attempt
DraftInit ==
  /\ facade = [autofix |-> FALSE, quick_mode |-> FALSE, draft_mode |-> FALSE,
               worker |-> 0, last_pdf_path |-> NoPath]
  /\ cache_dir = 0
  /\ fs = [dirs |-> {}, files |-> <<>>, made |-> 0]
  /\ workers = <<>>
  /\ signals = <<>>
  /\ lab = NoCall("none", <<>>, <<>>)

\* no worker is running
Quiet == \A w \in DOMAIN workers : workers[w].pc = "done"

\* a first request in any mode, then, when it has finished, a second one under
\* the same name; the modes are set between the requests (autofix is off: no
\* repair step is ever enabled)
DraftNext ==
  \/ /\ Quiet
     /\ \E enabled \in BOOLEAN : set_quick_mode(enabled)
     /\ UNCHANGED lab
  \/ /\ Quiet
     /\ \E enabled \in BOOLEAN : set_draft_mode(enabled)
     /\ UNCHANGED lab
  \/ /\ Quiet
     /\ Len(workers) <= 1
     /\ compile(DOC, "output")
     /\ UNCHANGED lab
  \/ /\ AttemptStep
     /\ UNCHANGED lab

DraftSpec == DraftInit /\ [][DraftNext]_vars

\* the verdict of a draft attempt read from the log alone: success without a
\* path when the log says that no output was made or does not say that output
\* was written, else failure when it holds an error mark; no log, no success
LogVerdict(files, log_file) ==
  IF ~FileExists(files, log_file)
  THEN Ret(FALSE, NoPath, <<Line("unknown", <<>>)>>)
  ELSE IF HasLine(files[log_file], "nopages") \/ ~HasLine(files[log_file], "written")
       THEN Ret(TRUE, NoPath, <<>>)
  ELSE IF \E i \in DOMAIN files[log_file] : HasBang(files[log_file][i])
       THEN Ret(FALSE, NoPath, extract_error(files, log_file))
  ELSE Ret(TRUE, NoPath, <<>>)

\* _compile reached its verdict: it returned, and not from an except clause
\* or for want of the binary
ReachedVerdict(me) ==
  /\ me.pc \in {"judge", "done"}
  /\ me.ret.success \/ me.ret.error[1].kind \notin {"exception", "timeout", "notfound"}

\* C24: the verdict of an attempt in draft mode is the one read from the log
\* of the request's name, the same whether or not an output file of that name
\* lies in the cache directory.
C24_DraftVerdictFromLog ==
  \A w \in DOMAIN workers :
    (w = Len(workers) /\ workers[w].draft_mode /\ ReachedVerdict(workers[w])) =>
      workers[w].ret = LogVerdict(fs.files, LogFile(workers[w]))

\* a draft attempt failed on its log while the output file left by the
\* request before it lies in the cache directory
C24_DraftFailsBesideArtifact ==
  \E w \in DOMAIN workers :
    /\ w = Len(workers)
    /\ workers[w].draft_mode
    /\ ReachedVerdict(workers[w])
    /\ ~workers[w].ret.success
    /\ FileExists(fs.files, PdfFile(workers[w]))

(***************************************************************************)
(* Timeouts                                                                *)
(***************************************************************************)

TIMED_OUT == <<Line("timeout", <<>>)>>

TimedOut(error) == error # <<>> /\ error[1].kind = "timeout"

\* C27: an attempt stopped by a timeout is a failed attempt like any other:
\* its error is the fixed timeout text, it is one of the at most six attempts,
\* and the worker goes on as after any failure, to the repair of that error on
\* the text of that attempt and from there to the retry or to finished(false),
\* or straight to finished(false) when autofix is off or the budget is spent;
\* the thread never ends on a timeout without a finished event, and _compile
\* returns right after announcing pass 1 only with a failure, pass 2 not run.
C27_TimeoutIsOrdinaryFailure ==
  \A w \in DOMAIN workers :
    LET me == workers[w]
        evs == EmittedBy(w)
    IN /\ \A k \in DOMAIN me.errors :
            TimedOut(me.errors[k]) =>
              /\ me.errors[k] = TIMED_OUT
              /\ k <= Len(me.compiled)
              /\ Len(me.compiled) <= MAX_FIX_ATTEMPTS + 1
              /\ (k < Len(me.errors) \/ me.pc # "judge") =>
                   IF me.autofix /\ k <= MAX_FIX_ATTEMPTS
                   THEN /\ Len(me.repairs) >= k
                        /\ me.repairs[k].error = TIMED_OUT
                        /\ me.repairs[k].code = me.compiled[k]
                        /\ k < Len(me.compiled) =>
                             me.compiled[k + 1] = me.repairs[k].result.code
                        /\ (k = Len(me.compiled) /\ me.pc = "done") =>
                             FinishedOf(w) = <<FailureOf(w)>>
                   ELSE /\ k = Len(me.errors)
                        /\ me.pc = "done"
                        /\ FinishedOf(w) = <<FailureOf(w)>>
       /\ me.pc = "crashed" => me.fix.raised
       /\ (me.pc = "judge" /\ evs[Len(evs)].msg = "Running pdflatex (pass 1/2)...") =>
            /\ ~me.ret.success
            /\ me.ret.error[1].kind \in {"timeout", "exception"}

\* the second attempt of a request timed out in its first pass, the error was
\* given to the repair engine, and the request ended with finished(false)
C27_SecondAttemptTimedOut ==
  \E w \in DOMAIN workers :
    LET evs == EmittedBy(w)
    IN /\ Len(workers[w].errors) = 2
       /\ workers[w].errors[2] = TIMED_OUT
       /\ Len(workers[w].repairs) = 2
       /\ workers[w].pc = "done"
       /\ evs[Len(evs) - 2].msg = "Running pdflatex (pass 1/2)..."

(***************************************************************************)
(* Two requests in flight                                                  *)
(***************************************************************************)

\* the logical names of the two requests
FIRST == "first"
SECOND == "second"

\* what the toolchain does in these runs: it writes the output, it stops on an
\* error, or it dies before opening its log
PairOutcomes ==
  { [log |-> <<Line("text", <<>>), Line("written", <<>>)>>, pdf |-> TRUE],
    [log |-> <<Line("text", <<>>), Line("bang", <<>>), Line("nopages", <<>>)>>,
     pdf |-> FALSE],
    [log |-> <<>>, pdf |-> FALSE] }

\* the program was stopped by the destruction of a running thread
Aborted == \E w \in DOMAIN workers : workers[w].pc = "destroyed"

\* the finished event of worker w has been handled by the facade
Delivered(w) ==
  \E i \in DOMAIN signals :
    signals[i].sig = "compilation_finished" /\ signals[i].n = w

\* the finished event of worker v was emitted before that of worker w; the
\* facade's thread handles the events queued to it in the order of emission
EmittedBefore(v, w) ==
  \E i \in DOMAIN signals : \E j \in DOMAIN signals :
    /\ i < j
    /\ signals[i].sig = "finished" /\ signals[i].w = v
    /\ signals[j].sig = "finished" /\ signals[j].w = w

\* LatexCompiler._on_finished (lines 513-516), run in the facade's thread for
\* the finished event that worker w emitted
on_finished(w) ==
  LET ev == FinishedOf(w)[1]
  IN /\ ~Aborted
     /\ FinishedOf(w) # <<>>
     /\ ~Delivered(w)
     /\ \A v \in DOMAIN workers \ {w} :
          (FinishedOf(v) # <<>> /\ ~Delivered(v)) => EmittedBefore(w, v)
     /\ facade' = [facade EXCEPT !.last_pdf_path =
                     IF ev.success THEN ev.pdf_path ELSE @]
     /\ signals' = Append(signals,
          [ev EXCEPT !.w = 0, !.sig = "compilation_finished", !.n = w])
     /\ UNCHANGED <<cache_dir, fs, workers>>

\* line 496 rebinds self.worker, the only reference the program holds to the
\* previous worker object; its run() frame holds it while run() executes
Unreferenced(w) == facade.worker # w

\* an unreferenced worker object is deleted before its thread has begun run()
\* or as soon as run() has returned, when the thread has not finished yet:
\* deleting a QThread whose thread has not finished stops the program
DestroyedWhileRunning(w) ==
  /\ Unreferenced(w)
  /\ workers[w].pc \in {"start", "done"}
  /\ workers' = [x \in DOMAIN workers |-> [workers[x] EXCEPT !.pc = "destroyed"]]
  /\ UNCHANGED <<facade, cache_dir, fs, signals>>

\* one facade, LatexCompiler(autofix=False), is given a request and, while its
\* worker is active, a second request under another name; each worker thread
\* runs the two passes of full mode, and get_cache_dir is entered by both
PairNext ==
  \/ /\ workers = <<>>
     /\ compile(DOC, FIRST)
     /\ UNCHANGED lab
  \/ /\ Len(workers) = 1
     /\ workers[1].pc # "done"
     /\ compile(DOC, SECOND)
     /\ UNCHANGED lab
  \/ /\ \E w \in DOMAIN workers : on_finished(w)
     /\ UNCHANGED lab
  \/ /\ \E w \in DOMAIN workers : DestroyedWhileRunning(w)
     /\ UNCHANGED lab
  \/ /\ \E w \in DOMAIN workers : PrePass(w)
     /\ UNCHANGED lab
  \/ /\ \E w \in DOMAIN workers : EnterCompile(w)
     /\ UNCHANGED lab
  \/ \E w \in DOMAIN workers : TestCacheDir(w)
  \/ \E w \in DOMAIN workers : MakeCacheDir(w)
  \/ \E w \in DOMAIN workers : ReturnCacheDir(w)
  \/ /\ \E w \in DOMAIN workers : WriteTex(w)
     /\ UNCHANGED lab
  \/ /\ \E w \in DOMAIN workers : WhichFound(w)
     /\ UNCHANGED lab
  \/ /\ \E w \in DOMAIN workers : \E outcome \in PairOutcomes : PassOne(w, outcome)
     /\ UNCHANGED lab
  \/ /\ \E w \in DOMAIN workers : \E outcome \in PairOutcomes : PassTwo(w, outcome)
     /\ UNCHANGED lab
  \/ /\ \E w \in DOMAIN workers : Check(w)
     /\ UNCHANGED lab
  \/ /\ \E w \in DOMAIN workers : Succeed(w)
     /\ UNCHANGED lab
  \/ /\ \E w \in DOMAIN workers : GiveUp(w)
     /\ UNCHANGED lab

PairSpec == CacheInit /\ [][PairNext]_vars

\* the workers that have been given a directory by get_cache_dir
Housed == {w \in DOMAIN workers : workers[w].temp_dir # 0}

\* every file on the disk bears the name of a request, the source file of a
\* name holds the text its worker wrote, and the output file of a name was
\* made from a text of its worker
OwnFilesOnly ==
  \A p \in DOMAIN fs.files :
    \E w \in DOMAIN workers :
      /\ p[2] = workers[w].output_name
      /\ p[3] = "tex" => fs.files[p] = workers[w].current_code
      /\ p[3] = "pdf" => fs.files[p].src = workers[w].current_code

\* C25: two requests under distinct names keep to the files of their own name
\* in the one cache directory they share, and the verdict each has returned
\* is the verdict on the files of its own name.
C25_NoInterference ==
  /\ OwnFilesOnly
  /\ \A v \in Housed, w \in Housed : workers[v].temp_dir = workers[w].temp_dir
  /\ \A w \in DOMAIN workers :
       workers[w].pc = "judge" => workers[w].ret = Verdict(fs.files, workers[w])

\* C26: a worker that the facade has replaced by a newer one is never stopped:
\* the program keeps running, and the finished event the facade passes on for
\* a request is the one its worker emitted.
C26_OldWorkerCompletes ==
  \A w \in DOMAIN workers :
    /\ workers[w].pc # "destroyed"
    /\ Delivered(w) => FinishedOf(w) # <<>>

(***************************************************************************)
(* MatrixStorage (Matrix Lab): the table of stored matrices                *)
(***************************************************************************)

\* a storage object is called at most MaxCalls times
MaxCalls == 3

MatrixNames == {"A", "B"}

\* the arrays given to the storage: one of 2 x 2, one of 1 x 2, one of 2 x 1
Matrices == { <<<<1, 2>>, <<3, 4>>>>, <<<<5, 6>>>>, <<<<7>>, <<8>>>> }

\* the tags argument of save: left out (None), or a list
NoTags == "None"
TagLists == {NoTags, <<"t">>}

\* matrix.shape of a two-dimensional array
Shape(matrix) == <<Len(matrix), Len(matrix[1])>>

\* pickle.dumps of an array: its shape and its elements in row order
RECURSIVE RowMajor(_)
RowMajor(matrix) ==
  IF matrix = <<>> THEN <<>> ELSE Head(matrix) \o RowMajor(Tail(matrix))

PickleDumps(matrix) == [shape |-> Shape(matrix), buffer |-> RowMajor(matrix)]

\* pickle.loads: the array rebuilt from the shape and the elements
PickleLoads(blob) ==
  [r \in 1..blob.shape[1] |->
     [c \in 1..blob.shape[2] |-> blob.buffer[(r - 1) * blob.shape[2] + c]]]

\* json.dumps(tags if tags else [])
TagsJson(tags) == IF tags = NoTags THEN <<"[", "]">> ELSE <<"[">> \o tags \o <<"]">>

\* the rows of the table whose name column equals name (WHERE name = ?)
RowsNamed(table, name) == SelectSeq(table, LAMBDA row : row.name = name)

\* a statement that writes cannot get the write lock within the timeout of
\* the connection: cursor.execute raises sqlite3.OperationalError ("database
\* is locked"), which no method catches
OperationalError == [raised |-> TRUE, value |-> FALSE]

\* a method returning value
Returned(value) == [raised |-> FALSE, value |-> value]

\* lines 56-77: the INSERT fails on the UNIQUE constraint of the name column
\* (sqlite3.IntegrityError) and nothing is stored; otherwise a row is added
\* under the next id.  The except clause returns without conn.close(): the
\* connection stays open inside the transaction of the INSERT, holding the
\* write lock, until the garbage collector closes it
save(db, name, matrix, tags, now) ==
  LET shape == Shape(matrix)
      row == [id |-> db.seq + 1, name |-> name, data_blob |-> PickleDumps(matrix),
              rows |-> shape[1], cols |-> shape[2],
              created_date |-> now, modified_date |-> now,
              tags |-> TagsJson(tags), is_favorite |-> 0]
  IN IF db.locked
     THEN [db |-> db, result |-> OperationalError]
     ELSE IF RowsNamed(db.table, name) # <<>>
     THEN [db |-> [db EXCEPT !.locked = TRUE], result |-> Returned(FALSE)]
     ELSE [db |-> [db EXCEPT !.table = Append(db.table, row), !.seq = db.seq + 1],
           result |-> Returned(TRUE)]

\* lines 89-98 (None, no row of that name, is the empty tuple here: no array is)
None == <<>>

load(db, name) ==
  LET result == RowsNamed(db.table, name)
  IN IF result # <<>> THEN PickleLoads(result[1].data_blob) ELSE None

\* lines 111-127: success is cursor.rowcount > 0
update(db, name, matrix, now) ==
  LET shape == Shape(matrix)
      set(row) == IF row.name = name
                  THEN [row EXCEPT !.data_blob = PickleDumps(matrix),
                                   !.rows = shape[1], !.cols = shape[2],
                                   !.modified_date = now]
                  ELSE row
  IN IF db.locked
     THEN [db |-> db, result |-> OperationalError]
     ELSE [db |-> [db EXCEPT !.table = [i \in DOMAIN db.table |-> set(db.table[i])]],
           result |-> Returned(Len(RowsNamed(db.table, name)) > 0)]

\* lines 139-146
delete(db, name) ==
  IF db.locked
  THEN [db |-> db, result |-> OperationalError]
  ELSE [db |-> [db EXCEPT !.table = SelectSeq(db.table, LAMBDA row : row.name # name)],
        result |-> Returned(Len(RowsNamed(db.table, name)) > 0)]

\* MatrixStorage(db_path) on a new file: the empty table, no connection left
\* open; no call made yet
NoStorageCall ==
  [op |-> "none", name |-> "", matrix |-> <<>>, result |-> Returned(FALSE)]

EmptyDatabase == [table |-> <<>>, seq |-> 0, locked |-> FALSE]

StorageInit ==
  /\ Idle
  /\ lab = [db |-> EmptyDatabase, clock |-> 0, before |-> EmptyDatabase,
            last |-> NoStorageCall]

\* a call made at time lab.clock + 1, recorded with the database before it
StorageCall(op, name, matrix, r) ==
  /\ lab.clock < MaxCalls
  /\ lab' = [db |-> r.db, clock |-> lab.clock + 1, before |-> lab.db,
             last |-> [op |-> op, name |-> name, matrix |-> matrix,
                       result |-> r.result]]
  /\ UNCHANGED <<facade, cache_dir, fs, workers, signals>>

call_save(name, matrix, tags) ==
  StorageCall("save", name, matrix, save(lab.db, name, matrix, tags, lab.clock + 1))

call_load(name) ==
  StorageCall("load", name, <<>>,
              [db |-> lab.db, result |-> Returned(load(lab.db, name))])

call_update(name, matrix) ==
  StorageCall("update", name, matrix, update(lab.db, name, matrix, lab.clock + 1))

call_delete(name) ==
  StorageCall("delete", name, <<>>, delete(lab.db, name))

\* the garbage collector finds the connection a refused save left open and
\* closes it: its transaction is rolled back and the lock released
CollectGarbage ==
  /\ lab.db.locked
  /\ lab' = [lab EXCEPT !.db.locked = FALSE]
  /\ UNCHANGED <<facade, cache_dir, fs, workers, signals>>

StorageNext ==
  \/ \E name \in MatrixNames, matrix \in Matrices, tags \in TagLists :
       call_save(name, matrix, tags)
  \/ \E name \in MatrixNames : call_load(name)
  \/ \E name \in MatrixNames, matrix \in Matrices : call_update(name, matrix)
  \/ \E name \in MatrixNames : call_delete(name)
  \/ CollectGarbage

StorageSpec == StorageInit /\ [][StorageNext]_vars

\* name is stored in db
Stored(db, name) == RowsNamed(db.table, name) # <<>>

\* C28: no two entries bear the same name; a save under a name that was not
\* stored returned True, added one entry, and load of that name returns the
\* matrix saved; a save under a name that was stored returned False and left
\* the table, every column of every row, as it was.
C28_UniqueNames ==
  /\ \A i \in DOMAIN lab.db.table, j \in DOMAIN lab.db.table :
       lab.db.table[i].name = lab.db.table[j].name => i = j
  /\ lab.last.op = "save" =>
       IF Stored(lab.before, lab.last.name)
       THEN /\ lab.last.result = Returned(FALSE)
            /\ lab.db.table = lab.before.table
       ELSE /\ lab.last.result = Returned(TRUE)
            /\ load(lab.db, lab.last.name) = lab.last.matrix
            /\ Len(lab.db.table) = Len(lab.before.table) + 1

\* the rows of db under names other than name
OtherRows(db, name) == SelectSeq(db.table, LAMBDA row : row.name # name)

\* C29: update and delete returned True exactly when the name was stored when
\* they were called; after an update that returned True load gives the new
\* matrix, after a delete that returned True load gives None; neither added
\* an entry, and the rows under other names are as they were.
C29_UpdateDeleteExact ==
  lab.last.op \in {"update", "delete"} =>
    /\ lab.last.result = Returned(Stored(lab.before, lab.last.name))
    /\ (lab.last.op = "update" /\ lab.last.result = Returned(TRUE)) =>
         load(lab.db, lab.last.name) = lab.last.matrix
    /\ (lab.last.op = "delete" /\ lab.last.result = Returned(TRUE)) =>
         load(lab.db, lab.last.name) = None
    /\ Len(lab.db.table) <= Len(lab.before.table)
    /\ OtherRows(lab.db, lab.last.name) = OtherRows(lab.before, lab.last.name)

\* ---------------------------------------------------------------------
\* The blocks fix_truncated_document closes
\* ---------------------------------------------------------------------

\* C30: for a text without the terminal marker, the blocks
\* fix_truncated_document closes are exactly the blocks one scan of the
\* begin- and end-markers in document order leaves open, each end-marker
\* paired with the most recent unmatched begin-marker of its kind: one
\* "Closed unclosed environment" fix for each of them, innermost first, and
\* none for a block that was opened and closed before a later one was opened.
C30_InterleavedScan ==
  (lab.op = "fix_truncated_document" /\ ~Contains(lab.code, END_DOCUMENT)) =>
    SubSeq(lab.result.fixes, 1, Len(lab.result.fixes) - 1) =
      ClosingFixes(OpenBlocks(lab.code, 1, <<>>))

(***************************************************************************)
(* Two requests in flight under one name                                   *)
(***************************************************************************)

\* the text of the second request
DOC_B == HEAD \o <<"$y$", NL>> \o END_DOCUMENT

\* one facade, LatexCompiler(autofix=False), is given compile(DOC, "output")
\* and, while that worker is active, compile(DOC_B, "output"); both threads
\* run the two passes of full mode on <cache>/output.tex
RaceNext ==
  \/ /\ workers = <<>>
     /\ compile(DOC, "output")
     /\ UNCHANGED lab
  \/ /\ Len(workers) = 1
     /\ workers[1].pc # "done"
     /\ compile(DOC_B, "output")
     /\ UNCHANGED lab
  \/ /\ \E w \in DOMAIN workers : DestroyedWhileRunning(w)
     /\ UNCHANGED lab
  \/ /\ \E w \in DOMAIN workers : PrePass(w)
     /\ UNCHANGED lab
  \/ /\ \E w \in DOMAIN workers : BeginAttempt(w)
     /\ UNCHANGED lab
  \/ /\ \E w \in DOMAIN workers : WriteTex(w)
     /\ UNCHANGED lab
  \/ /\ \E w \in DOMAIN workers : WhichFound(w)
     /\ UNCHANGED lab
  \/ /\ \E w \in DOMAIN workers : \E outcome \in PairOutcomes : PassOne(w, outcome)
     /\ UNCHANGED lab
  \/ /\ \E w \in DOMAIN workers : \E outcome \in PairOutcomes : PassTwo(w, outcome)
     /\ UNCHANGED lab
  \/ /\ \E w \in DOMAIN workers : Check(w)
     /\ UNCHANGED lab
  \/ /\ \E w \in DOMAIN workers : Succeed(w)
     /\ UNCHANGED lab
  \/ /\ \E w \in DOMAIN workers : GiveUp(w)
     /\ UNCHANGED lab

RaceSpec == CacheInit /\ [][RaceNext]_vars

\* the workers other than w that use the files w uses
Rivals(w) ==
  {v \in DOMAIN workers \ {w} :
     /\ workers[v].temp_dir = workers[w].temp_dir
     /\ workers[v].output_name = workers[w].output_name}

\* C31: two running requests of one name use the same source, log and output
\* files and no step of one waits for the other: a worker about to write the
\* source file can write it wherever the other worker stands, a worker about
\* to run a pass can run it, and the output file of the name is made from
\* whichever text was in the source file at that pass (so a pass of one
\* worker can compile the other's text, and a worker can report the other's
\* artifact).
C31_SharedFilesUnlocked ==
  \A w \in DOMAIN workers :
    LET me == workers[w]
    IN /\ (me.pc = "write" /\ me.temp_dir \in fs.dirs) => ENABLED WriteTex(w)
       /\ me.pc = "launch" => ENABLED (\E outcome \in PairOutcomes : PassOne(w, outcome))
       /\ me.pc = "pass2" => ENABLED (\E outcome \in PairOutcomes : PassTwo(w, outcome))
       /\ (me.temp_dir # 0 /\ FileExists(fs.files, PdfFile(me))) =>
            \E v \in Rivals(w) \cup {w} :
              fs.files[PdfFile(me)].src = workers[v].current_code

\* worker 1 has reported success with the output file its own pass made from
\* the text of worker 2, which has written its source and not run a pass yet
C31_CompiledOthersText ==
  /\ Len(workers) = 2
  /\ workers[2].pc \in {"which", "launch"}
  /\ workers[1].pc = "done"
  /\ workers[1].ret.success
  /\ workers[1].ret.pdf_path = PdfFile(workers[2])
  /\ fs.files[PdfFile(workers[1])].src = workers[2].current_code
  /\ workers[2].current_code # workers[1].current_code

\* C32: as long as no directory is removed from outside, the workers that
\* call get_cache_dir together make one directory between them, and every
\* worker that has been given a directory has been given that one.
C32_OneCacheDirectory ==
  lab.removed = {} =>
    /\ fs.made <= 1
    /\ \A w \in DOMAIN workers : workers[w].temp_dir \in {0, 1}

(***************************************************************************)
(* Fixed points of the repair rules                                        *)
(***************************************************************************)

\* C33: rules 1-4 reach a fixed point after one application: the text that
\* comprehensive_fix returned for a call without a diagnostic is returned
\* unchanged, with an empty fix list, by a second call without a diagnostic.
C33_FixedPointAfterOne ==
  (NoDiagnosticCall /\ ~lab.result.raised) =>
    comprehensive_fix(lab.result.code, <<>>) = Result(lab.result.code, <<>>)

\* C34: the missing-package repair is idempotent: applied again, for the same
\* package, to the text it returned, it returns that text unchanged and
\* records no fix.
C34_RepairIdempotent ==
  (lab.op = "fix_package_not_found" /\ ~lab.result.raised) =>
    fix_package_not_found(lab.result.code, lab.arg) = Result(lab.result.code, <<>>)

(***************************************************************************)
(* A request after an earlier request of the same name has left its output *)
(***************************************************************************)

\* one facade, LatexCompiler(autofix=False), is given compile(DOC, "output")
\* and, when that request has finished, compile(DOC_B, "output")
SequelNext ==
  \/ /\ workers = <<>>
     /\ compile(DOC, "output")
     /\ UNCHANGED lab
  \/ /\ Len(workers) = 1
     /\ workers[1].pc = "done"
     /\ compile(DOC_B, "output")
     /\ UNCHANGED lab
  \/ /\ \E w \in DOMAIN workers : PrePass(w)
     /\ UNCHANGED lab
  \/ /\ \E w \in DOMAIN workers : BeginAttempt(w)
     /\ UNCHANGED lab
  \/ /\ \E w \in DOMAIN workers : WriteTex(w)
     /\ UNCHANGED lab
  \/ /\ \E w \in DOMAIN workers : WhichFound(w)
     /\ UNCHANGED lab
  \/ /\ \E w \in DOMAIN workers : \E outcome \in PairOutcomes : PassOne(w, outcome)
     /\ UNCHANGED lab
  \/ /\ \E w \in DOMAIN workers : \E outcome \in PairOutcomes : PassTwo(w, outcome)
     /\ UNCHANGED lab
  \/ /\ \E w \in DOMAIN workers : Check(w)
     /\ UNCHANGED lab
  \/ /\ \E w \in DOMAIN workers : Succeed(w)
     /\ UNCHANGED lab
  \/ /\ \E w \in DOMAIN workers : GiveUp(w)
     /\ UNCHANGED lab

SequelSpec == CacheInit /\ [][SequelNext]_vars

\* C35: an attempt returns success only when the toolchain run of that very
\* attempt produced the output: the output file it names was made from the
\* text the attempt compiled, never left by an earlier request of the name.
C35_SuccessFromOwnRun ==
  \A w \in DOMAIN workers :
    LET me == workers[w]
    IN (me.pc = "judge" /\ me.ret.success) =>
         /\ FileExists(fs.files, me.ret.pdf_path)
         /\ fs.files[me.ret.pdf_path].src = me.current_code

(***************************************************************************)
(* The path of the last artifact                                           *)
(***************************************************************************)

\* the requests whose success the facade has been told of
Succeeded ==
  {w \in DOMAIN workers : Delivered(w) /\ FinishedOf(w)[1].success}

\* C36: last_pdf_path is the path carried by a finished(success) event the
\* facade has handled, or still unset when it has handled none; and once
\* every worker has finished and its event is handled, it is the path of the
\* successful request that was started last.
C36_LastPathOfLatestRequest ==
  /\ facade.last_pdf_path \in
       {NoPath} \cup {FinishedOf(w)[1].pdf_path : w \in Succeeded}
  /\ Succeeded = {} => facade.last_pdf_path = NoPath
  /\ (/\ Len(workers) = 2
      /\ \A w \in DOMAIN workers : workers[w].pc = "done" /\ Delivered(w)
      /\ Succeeded # {}) =>
       LET latest == CHOOSE w \in Succeeded : \A v \in Succeeded : v <= w
       IN facade.last_pdf_path = FinishedOf(latest)[1].pdf_path

(***************************************************************************)
(* The terminal marker                                                     *)
(***************************************************************************)

\* C37: for a text without the terminal marker, the text comprehensive_fix
\* returns holds the terminal marker exactly once.
C37_TerminalMarkerOnce ==
  (lab.op = "comprehensive_fix" /\ ~lab.result.raised
     /\ ~Contains(lab.code, END_DOCUMENT)) =>
    Count(lab.result.code, END_DOCUMENT) = 1

\* C38: the brace-balance rule adds or removes free-standing braces only:
\* the text it returns holds the terminal marker, and every other begin- or
\* end-marker, as many times as the text it was given.
C38_MarkersIntact ==
  lab.op = "fix_brace_imbalance" =>
    \A marker \in {END_DOCUMENT, BeginMarker(LISTING), EndMarker(LISTING)} :
      Count(lab.result.code, marker) = Count(lab.code, marker)

(***************************************************************************)
(* Errors in draft mode                                                    *)
(***************************************************************************)

\* C39: a draft attempt whose log holds an error line returns failure with
\* the diagnostic extracted from that log, never success.
C39_DraftErrorFails ==
  \A w \in DOMAIN workers :
    LET me == workers[w]
        log_file == LogFile(me)
    IN ( /\ me.draft_mode
         /\ me.pc = "judge"
         /\ ReachedVerdict(me)
         /\ FileExists(fs.files, log_file)
         /\ \E i \in DOMAIN fs.files[log_file] : HasBang(fs.files[log_file][i]) ) =>
         /\ ~me.ret.success
         /\ me.ret.error = extract_error(fs.files, log_file)

(***************************************************************************)
(* A toolchain process that never exits                                    *)
(***************************************************************************)

\* C40: an attempt can always come to an end: a worker in the polling loop
\* of quick mode either has a process that is still running (and can exit),
\* or can take a step of its own, a last refresh or the way out of the loop;
\* it is never left in the loop beside a process that will not exit.
C40_AttemptCanEnd ==
  \A w \in DOMAIN workers :
    workers[w].pc = "poll" =>
      \/ workers[w].process = "running"
      \/ ENABLED Poll(w)
      \/ ENABLED PollEnd(w)

====
